---- MODULE Spec2Model ----
(***************************************************************************)
(* A model of grove's reconciliation engine (src/src/utils.py and the      *)
(* orphan reconciler of src/src/app.py): git worktree creation and         *)
(* removal, tmux session orchestration, the pane preview cache, the sync   *)
(* status classification and the remote-branch probe.                      *)
(*                                                                         *)
(* Strings the code inspects character by character (worktree names,       *)
(* branch names, git status lines) are sequences of one-character strings. *)
(* Messages returned to the caller are sequences of text fragments.        *)
(* External programs (git, hook scripts, tmux) are outcomes chosen with \E *)
(* at the call that consults them.                                         *)
(***************************************************************************)
EXTENDS Integers, Sequences, FiniteSets, TLC

VARIABLES
    dirs,           \* names of the directories that exist under the repository root
    registered,     \* names git lists as worktrees (git worktree list)
    head,           \* name -> branch its checkout is on (Detached, or NoBranch)
    localBranches,  \* local branches of the bare repository
    envFiles,       \* name -> the .env file of its directory
    res,            \* what the last worktree operation returned and observed
    ops,            \* number of operations performed so far
    statusOut,      \* output of `git status -b --porcelain` handed to the probe
    checked,        \* what check_remote_branch_exists answered for statusOut
    sessions,       \* names of the sessions of the tmux server
    prFiles,        \* names n for which <repoRoot>/.grove/metadata/n/pr.md exists
    sres,           \* what the last session call returned and observed
    syncIn,         \* what git answers while the sync status is computed
    syncOut,        \* what _get_sync_status returned
    clock,          \* time.time(), in seconds
    ticks,          \* number of times the clock has advanced
    cache,          \* _tmux_pane_cache: name -> entry (timestamp, pane_data)
    pres,           \* what the last get_tmux_pane_preview call returned and did
    pc,             \* where the startup reconciler is: "start", "cleanup", "done"
    started,        \* the directories and the flagged worktrees the reconciler found
    seen,           \* name -> the git status output the reconciler got for it
    queue,          \* orphaned_worktrees still to be cleaned, in loop order
    invoked,        \* names remove_worktree_with_branch was invoked on
    notes,          \* the notifications shown, in order
    logIn,          \* what the locator and git answer while a log is computed
    logOut,         \* what get_worktree_git_log returned
    listIn,         \* the repository root as get_worktree_directories finds it
    listOut,        \* what get_worktree_directories returned
    hookRun,        \* an operation followed step by step while its hook script runs
    submission,     \* what the last handle_pr_submission did
    config,         \* the configuration file ~/.config/grove/config
    cfgRes,         \* what the last call on the configuration did
    active,         \* _active_repo_path
    app             \* where the main loop of grove stands

gitVars == <<dirs, registered, head, localBranches, envFiles, res, ops>>

checkVars == <<statusOut, checked>>

tmuxVars == <<sessions, prFiles, sres>>

syncVars == <<syncIn, syncOut>>

paneVars == <<clock, ticks, cache, pres>>

reconVars == <<pc, started, seen, queue, invoked, notes>>

viewVars == <<logIn, logOut, listIn, listOut>>

hookVars == <<hookRun>>

submitVars == <<submission>>

configVars == <<config, cfgRes, active, app>>

appVars == <<hookVars, submitVars, configVars>>

\* What the worktree operations, the probe, the session calls, the sync status
\* computation and the pane preview leave alone
notGit == <<checkVars, tmuxVars, syncVars, paneVars, reconVars, viewVars, appVars>>

notCheck == <<gitVars, tmuxVars, syncVars, paneVars, reconVars, viewVars, appVars>>

notTmux == <<gitVars, checkVars, syncVars, paneVars, reconVars, viewVars, appVars>>

notSync == <<gitVars, checkVars, tmuxVars, paneVars, reconVars, viewVars, appVars>>

notPane == <<gitVars, checkVars, tmuxVars, syncVars, reconVars, viewVars, appVars>>

notView == <<gitVars, checkVars, tmuxVars, syncVars, paneVars, reconVars, appVars>>

\* Everything but the hook run, the submission and the configuration
engineVars == <<gitVars, checkVars, tmuxVars, syncVars, paneVars, reconVars, viewVars>>

vars == <<engineVars, appVars>>

-----------------------------------------------------------------------------
(* Names, branches and sequence helpers *)

\* Operations explored in one run
MaxOps == 3

\* Longest git status output (in tokens) handed to the probe
MaxStatusLen == 3

\* Most commits on either side of a comparison
MaxCount == 2

\* Times the clock advances in one run
MaxTicks == 2

Names == { <<"a", ".", "b">>, <<"a", "-", "b">> }

Prefixes == { <<>>, <<"e", "p", "/">> }

MainBranch == <<"m", "a", "i", "n">>

\* repo.head.is_detached: HEAD names no branch
Detached == <<"HEAD">>

\* Python's None for branch_name
NoBranch == <<>>

Range(s) == { s[i] : i \in 1..Len(s) }

\* Python's `sub in s` for strings
Contains(sub, s) ==
    \E i \in 0..(Len(s) - Len(sub)) :
        \A j \in 1..Len(sub) : s[i + j] = sub[j]

\* " ".join(warnings), each warning a sequence of fragments
RECURSIVE JoinWarnings(_)
JoinWarnings(ws) ==
    IF Len(ws) = 0 THEN <<>>
    ELSE IF Len(ws) = 1 THEN ws[1]
    ELSE ws[1] \o <<" ">> \o JoinWarnings(Tail(ws))

\* The prefix dropped from the branch name
BranchName_NoPrefix(prefix, name) == name

\* branch_name = f"{prefix}{name}"
BranchName(prefix, name) == prefix \o name

Branches == { BranchName(p, n) : p \in Prefixes, n \in Names } \cup { MainBranch }

\* A branch git refuses to touch because some registered worktree has it checked out
CheckedOut(b, reg, hd) == \E m \in reg : hd[m] = b

-----------------------------------------------------------------------------
(* Results of the worktree operations *)

NoResult ==
    [ op |-> "none", name |-> <<>>, prefix |-> <<>>,
      status |-> "none",          \* "ok" (True, msg), "fail" (False, msg), "raised"
      msg |-> <<>>,
      hookExists |-> FALSE,       \* the hook script was found
      hookExc |-> "none",         \* what running it raised
      hookCode |-> 0,             \* its exit code
      hookStderr |-> <<>>,        \* its stderr
      dirGone |-> FALSE,          \* _remove_worktree_directory returned success
      branch |-> NoBranch,        \* branch provisioned / read from the checkout
      branchDeleted |-> FALSE,    \* git branch -D succeeded
      branchError |-> FALSE,      \* git branch -D raised
      pruned |-> FALSE,           \* git worktree prune was run
      remoteExisted |-> FALSE,    \* refs/remotes/origin/<branch> was found
      forked |-> FALSE,           \* git branch <branch> main created the branch
      addTried |-> FALSE,         \* git worktree add was run
      added |-> FALSE,            \* git worktree add succeeded
      kill |-> "none" ]           \* what became of the session kill that followed

-----------------------------------------------------------------------------
(* get_worktree_directories *)

\* The characters of the model in code point order
Alphabet == << " ", "-", ".", "/", "R", "[", "]", "a", "b", "e", "i", "m", "n", "p" >>

Ord(c) == CHOOSE i \in 1..Len(Alphabet) : Alphabet[i] = c

\* Python's str `<`
RECURSIVE StrLess(_, _)
StrLess(s, t) ==
    IF t = <<>> THEN FALSE
    ELSE IF s = <<>> THEN TRUE
    ELSE IF s[1] # t[1] THEN Ord(s[1]) < Ord(t[1])
    ELSE StrLess(Tail(s), Tail(t))

\* sorted(directories)
RECURSIVE Sorted(_)
Sorted(S) ==
    IF S = {} THEN <<>>
    ELSE LET least == CHOOSE x \in S : \A y \in S \ {x} : StrLess(x, y)
         IN  <<least>> \o Sorted(S \ {least})

\* No name taken for hidden
Hidden_never(name) == FALSE

\* item.name.startswith('.')
Hidden(name) == Len(name) > 0 /\ name[1] = "."

\* The listing of a root with the given entries; without an active repository
\* the locator raises ConfigError and the listing is empty
worktree_directories_of(locatorOk, items) ==
    IF ~locatorOk THEN <<>>
    ELSE Sorted({ item.name : item \in { i \in items : i.is_dir /\ ~Hidden(i.name) } })

\* The non-hidden directories of the repository root, sorted
get_worktree_directories ==
    worktree_directories_of(TRUE, { [ name |-> d, is_dir |-> TRUE ] : d \in dirs })

\* What can lie in a repository root: the bare repository, grove's own
\* directory, worktrees, a plain file and a hidden file
RootEntries ==
    { [ name |-> << ".", "b" >>, is_dir |-> TRUE ],
      [ name |-> << ".", "e" >>, is_dir |-> FALSE ],
      [ name |-> << "R" >>, is_dir |-> FALSE ],
      [ name |-> << "b" >>, is_dir |-> TRUE ],
      [ name |-> << "a", "-", "b" >>, is_dir |-> TRUE ],
      [ name |-> << "a", ".", "b" >>, is_dir |-> TRUE ] }

\* Where the process stands when the listing is asked for
WorkingDirs == { "root", "worktree", "elsewhere" }

ListInputs ==
    { in \in [ locator : BOOLEAN,        \* an active repository is set
               cwd : WorkingDirs,
               items : SUBSET RootEntries ] :
        ~in.locator => (in.cwd = "elsewhere" /\ in.items = {}) }

NoListInput == [ locator |-> TRUE, cwd |-> "root", items |-> {} ]

NoListOutput == [ done |-> FALSE, names |-> <<>> ]

-----------------------------------------------------------------------------
(* The review-submitted flag: get_worktree_pr_status *)

\* A file is a sequence of lines, a line a sequence of tokens; " " is whitespace
\* readable: read_text() does not raise IOError / OSError
NoFile == [ exists |-> FALSE, readable |-> TRUE, lines |-> <<>> ]

FlagLine == << "WORKTREE_PR_PUBLISHED=true" >>

EnvContents ==
    { NoFile,
      [ exists |-> TRUE, readable |-> TRUE, lines |-> << FlagLine >> ],
      [ exists |-> TRUE, readable |-> FALSE, lines |-> << FlagLine >> ],
      [ exists |-> TRUE, readable |-> TRUE,
        lines |-> << << "WORKTREE_PR_PUBLISHED=false" >> >> ],
      [ exists |-> TRUE, readable |-> TRUE,
        lines |-> << << "OTHER=1" >>, << " ", "WORKTREE_PR_PUBLISHED=true", " " >> >> ] }

\* str.strip() on a line
RECURSIVE LStrip(_)
LStrip(line) ==
    IF line # <<>> /\ Head(line) = " " THEN LStrip(Tail(line)) ELSE line

RECURSIVE RStrip(_)
RStrip(line) ==
    IF line # <<>> /\ line[Len(line)] = " "
    THEN RStrip(SubSeq(line, 1, Len(line) - 1)) ELSE line

Strip(line) == RStrip(LStrip(line))

\* Every listed worktree that has a .env taken for flagged
get_worktree_pr_status_any_env ==
    { d \in Range(get_worktree_directories) : envFiles[d].exists }

\* The listed worktrees whose .env can be read and holds a line that is the
\* flag once stripped
get_worktree_pr_status ==
    { d \in Range(get_worktree_directories) :
        /\ envFiles[d].exists
        /\ envFiles[d].readable
        /\ \E i \in 1..Len(envFiles[d].lines) :
               Strip(envFiles[d].lines[i]) = FlagLine }

-----------------------------------------------------------------------------
(* check_remote_branch_exists *)

\* The output of `git status -b --porcelain` is a sequence of tokens; "\n" ends a
\* line, "..." separates a branch from its upstream, "[gone]" marks a lost upstream
StatusTokens == { "\n", "##", "...", "[gone]", "M" }

Whitespace == { " ", "\n" }

\* str.strip() on the whole output
RECURSIVE LStripText(_)
LStripText(t) ==
    IF t # <<>> /\ Head(t) \in Whitespace THEN LStripText(Tail(t)) ELSE t

RECURSIVE RStripText(_)
RStripText(t) ==
    IF t # <<>> /\ t[Len(t)] \in Whitespace
    THEN RStripText(SubSeq(t, 1, Len(t) - 1)) ELSE t

\* text.split('\n')[0]
RECURSIVE FirstLine(_)
FirstLine(t) ==
    IF t = <<>> \/ Head(t) = "\n" THEN <<>>
    ELSE << Head(t) >> \o FirstLine(Tail(t))

\* The marker looked for anywhere in the output, not in its first line
check_remote_branch_exists_any_line(out) ==
    IF out.exc THEN TRUE
    ELSE IF out.text = <<>> THEN TRUE
    ELSE "[gone]" \notin Range(out.text)

\* TRUE: the remote branch is taken to exist
check_remote_branch_exists(out) ==
    IF out.exc THEN TRUE
    ELSE IF out.text = <<>> THEN TRUE
    ELSE LET first_line == FirstLine(RStripText(LStripText(out.text)))
         IN  IF "[gone]" \in Range(first_line) THEN FALSE
             ELSE IF "..." \in Range(first_line) THEN TRUE
             ELSE TRUE

RECURSIVE SeqsUpTo(_, _)
SeqsUpTo(S, n) ==
    IF n = 0 THEN { <<>> }
    ELSE LET shorter == SeqsUpTo(S, n - 1)
         IN  shorter \cup { Append(t, x) : t \in shorter, x \in S }

NoStatus == [ exc |-> FALSE, text |-> <<>> ]

\* Every output the probe is tried on
StatusOutputs ==
    { [ exc |-> x, text |-> t ] : x \in BOOLEAN, t \in SeqsUpTo(StatusTokens, MaxStatusLen) }

-----------------------------------------------------------------------------
(* remove_worktree_with_branch *)

\* Outcomes of running <worktree>/bin/docker/stop
NoHook == [ exists |-> FALSE, exc |-> "none", code |-> 0, stderr |-> <<>> ]

TeardownRuns ==
    { NoHook }
    \cup { [ exists |-> TRUE, exc |-> "none", code |-> c, stderr |-> e ] :
             c \in {0, 1}, e \in { <<>>, <<"boom">> } }
    \cup { [ exists |-> TRUE, exc |-> x, code |-> 0, stderr |-> <<>> ] :
             x \in {"timeout", "oserror"} }

\* _stop_docker_containers: the warning, or <<>> for None
stop_docker_containers(run) ==
    IF ~run.exists THEN <<>>
    ELSE IF run.exc = "timeout" THEN << "Docker cleanup timed out after 60 seconds" >>
    ELSE IF run.exc # "none" THEN << "Docker cleanup failed: ", run.exc >>
    ELSE IF run.code # 0 /\ run.stderr # <<>>
         THEN << "Docker cleanup had warnings: " >> \o run.stderr
    ELSE <<>>

\* An answer that is consulted is either way; one that is not is held TRUE
Answers(consulted) == IF consulted THEN BOOLEAN ELSE {TRUE}

\* A line of `git worktree list`: path, then the branch in brackets
WorktreeLine(m) == <<"/">> \o m \o <<" ", "[">> \o head[m] \o <<"]">>

\* <worktree>/bin/docker/stop can only be found in a directory that exists
TeardownHooks(w) == IF w \in dirs THEN TeardownRuns ELSE {NoHook}

\* What git and the file system answer during one removal of w, one
\* representative per path through the code
RemoveEnv(w) ==
    { e \in
        [ locator : {TRUE},      \* get_repo_path() returns
          hook : TeardownHooks(w),
          repoOpen : {TRUE},     \* Repo(bare_repo_path) opens
          list : Answers(registered # {}),      \* git worktree list succeeds
          wtRemove : Answers(w \in registered), \* git worktree remove --force succeeds
          rmtree : Answers(w \in dirs),         \* shutil.rmtree succeeds
          prune : Answers(registered # {}),     \* git worktree prune succeeds
          branchDel : Answers(w \in dirs /\ w \in registered) ] :
                                 \* git branch -D is not failed by git itself
        /\ ~e.list => e.wtRemove        \* nothing found registered: no remove
        /\ (e.list /\ e.wtRemove /\ w \in registered) => e.rmtree
                                        \* git removed the directory: no rmtree
        /\ ~e.rmtree => (e.prune /\ e.branchDel) }   \* returns before both
    \cup [ locator : {TRUE}, hook : TeardownHooks(w), repoOpen : {FALSE},
           list : {TRUE}, wtRemove : {TRUE}, rmtree : {TRUE}, prune : {TRUE},
           branchDel : {TRUE} ]
    \cup [ locator : {FALSE}, hook : {NoHook}, repoOpen : {TRUE},
           list : {TRUE}, wtRemove : {TRUE}, rmtree : {TRUE}, prune : {TRUE},
           branchDel : {TRUE} ]

\* A failing rmtree swallowed like the git failures around it
remove_worktree_directory_rmtree_swallowed(w, e) ==
    LET removedByGit == e.list /\ e.wtRemove /\ w \in registered
        dirs1 == IF removedByGit THEN dirs \ {w} ELSE dirs
        reg1 == IF removedByGit THEN registered \ {w} ELSE registered
        dirs2 == IF e.rmtree THEN dirs1 \ {w} ELSE dirs1
    IN  [ ok |-> TRUE, msg |-> <<>>, dirs |-> dirs2,
          registered |-> IF e.prune THEN reg1 \cap dirs2 ELSE reg1,
          pruned |-> TRUE ]

\* The stale registrations pruned before the directory is removed
remove_worktree_directory_prune_first(w, e) ==
    LET worktree_registered ==
            e.list /\ \E m \in registered : Contains(w, WorktreeLine(m))
        removedByGit == worktree_registered /\ e.wtRemove /\ w \in registered
        dirs1 == IF removedByGit THEN dirs \ {w} ELSE dirs
        reg1 == IF removedByGit THEN registered \ {w} ELSE registered
        reg2 == IF e.prune THEN reg1 \cap dirs1 ELSE reg1
        rmFails == w \in dirs1 /\ ~e.rmtree
        dirs2 == IF rmFails THEN dirs1 ELSE dirs1 \ {w}
    IN  [ ok |-> ~rmFails,
          msg |-> IF rmFails THEN << "Failed to remove directory: ", "oserror" >>
                  ELSE <<>>,
          dirs |-> dirs2,
          registered |-> reg2 \cap (dirs2 \cup (reg2 \ dirs1)),
          pruned |-> TRUE ]

\* _remove_worktree_directory: deregister, remove the directory, prune
remove_worktree_directory(w, e) ==
    LET worktree_registered ==
            e.list /\ \E m \in registered : Contains(w, WorktreeLine(m))
        removedByGit == worktree_registered /\ e.wtRemove /\ w \in registered
        dirs1 == IF removedByGit THEN dirs \ {w} ELSE dirs
        reg1 == IF removedByGit THEN registered \ {w} ELSE registered
        rmFails == w \in dirs1 /\ ~e.rmtree
        dirs2 == IF rmFails THEN dirs1 ELSE dirs1 \ {w}
        reg2 == IF ~rmFails /\ e.prune THEN reg1 \cap dirs2 ELSE reg1
    IN  [ ok |-> ~rmFails,
          msg |-> IF rmFails THEN << "Failed to remove directory: ", "oserror" >>
                  ELSE <<>>,
          dirs |-> dirs2,
          registered |-> reg2,
          pruned |-> ~rmFails ]

\* The branch warning lost when the hook warned too
removal_message_first_only(docker_stop_warning, branch_error) ==
    IF docker_stop_warning # <<>>
    THEN << "Worktree removed. " >> \o docker_stop_warning
    ELSE IF branch_error # <<>>
    THEN << "Worktree removed. ", "Branch deletion failed: " >> \o branch_error
    ELSE <<>>

\* The warnings list and the message built from it
removal_message(docker_stop_warning, branch_error) ==
    LET warnings ==
            (IF docker_stop_warning # <<>> THEN << docker_stop_warning >> ELSE <<>>)
            \o (IF branch_error # <<>>
                THEN << << "Branch deletion failed: " >> \o branch_error >>
                ELSE <<>>)
    IN  IF warnings # <<>>
        THEN << "Worktree removed. " >> \o JoinWarnings(warnings)
        ELSE <<>>

\* No branch ever read from the checkout
active_branch_never_read(w) == NoBranch

\* The branch taken to be prefix + name, for the empty prefix
active_branch_reconstructed(w) ==
    IF w \in dirs /\ w \in registered THEN BranchName(<<>>, w) ELSE NoBranch

\* worktree_repo.active_branch.name of the checkout at <repoRoot>/w; NoBranch
\* (None) when the directory is missing, is not a checkout, or has a detached HEAD
active_branch(w) ==
    IF w \in dirs /\ w \in registered /\ head[w] # Detached
    THEN head[w] ELSE NoBranch

\* The whole operation: the state it leaves and the result it returns
remove_worktree_with_branch(w, e) ==
    LET base == [ NoResult EXCEPT !.op = "remove", !.name = w ]
        same == [ dirs |-> dirs, registered |-> registered, head |-> head,
                  localBranches |-> localBranches ]
        ran == [ base EXCEPT !.hookExists = e.hook.exists, !.hookExc = e.hook.exc,
                             !.hookCode = e.hook.code, !.hookStderr = e.hook.stderr ]
        docker_stop_warning == stop_docker_containers(e.hook)
        branch_name == active_branch(w)
        rd == remove_worktree_directory(w, e)
        head1 == [ m \in Names |-> IF m \in rd.registered THEN head[m] ELSE NoBranch ]
        delOk ==
            /\ branch_name # NoBranch
            /\ e.branchDel
            /\ branch_name \in localBranches
            /\ ~CheckedOut(branch_name, rd.registered, head1)
        branch_error ==
            IF branch_name # NoBranch /\ ~delOk THEN << "git: branch -D failed" >>
            ELSE <<>>
    IN  IF ~e.locator
        THEN same @@
             [ result |-> [ base EXCEPT !.status = "raised",
                                        !.msg = << "ConfigError" >> ] ]
        ELSE IF ~e.repoOpen
        THEN same @@
             [ result |-> [ ran EXCEPT !.status = "fail",
                                       !.msg = << "Unexpected error: ", "repo" >> ] ]
        ELSE IF ~rd.ok
        THEN [ same EXCEPT !.dirs = rd.dirs, !.registered = rd.registered,
                           !.head = head1 ] @@
             [ result |-> [ ran EXCEPT !.status = "fail", !.msg = rd.msg,
                                       !.dirGone = rd.ok,
                                       !.pruned = rd.pruned,
                                       !.branch = branch_name ] ]
        ELSE [ dirs |-> rd.dirs, registered |-> rd.registered, head |-> head1,
               localBranches |->
                   IF delOk THEN localBranches \ {branch_name} ELSE localBranches ] @@
             [ result |-> [ ran EXCEPT !.status = "ok",
                                       !.msg = removal_message(docker_stop_warning,
                                                               branch_error),
                                       !.dirGone = rd.ok,
                                       !.pruned = rd.pruned,
                                       !.branch = branch_name,
                                       !.branchDeleted = delOk,
                                       !.branchError = (branch_error # <<>>) ] ]

\* The .env of a directory goes with the directory
FilesLeft(remaining) ==
    [ m \in Names |-> IF m \in remaining THEN envFiles[m] ELSE NoFile ]

RemoveWorktree(w, e) ==
    LET r == remove_worktree_with_branch(w, e)
    IN  /\ ops < MaxOps
        /\ dirs' = r.dirs
        /\ registered' = r.registered
        /\ head' = r.head
        /\ localBranches' = r.localBranches
        /\ envFiles' = FilesLeft(r.dirs)
        /\ res' = r.result
        /\ ops' = ops + 1
        /\ UNCHANGED notGit

-----------------------------------------------------------------------------
(* create_worktree_with_branch *)

\* Outcomes of running <repoRoot>/.grove/.setup
SetupRuns ==
    { NoHook }
    \cup { [ exists |-> TRUE, exc |-> "none", code |-> c, stderr |-> <<>> ] :
             c \in {0, 1} }
    \cup { [ exists |-> TRUE, exc |-> x, code |-> 0, stderr |-> <<>> ] :
             x \in {"timeout", "oserror"} }

\* except (subprocess.SubprocessError, subprocess.TimeoutExpired): TRUE when the
\* exception raised by subprocess.run is swallowed there
setup_exception_caught(exc) == exc \in {"timeout", "suberror"}

\* What git and the file system answer during one creation
CreateEnvAll ==
    [ locator : BOOLEAN,    \* get_repo_path() returns (FALSE: raises ConfigError)
      repoOpen : BOOLEAN,   \* Repo(bare_repo_path) opens
      remote : BOOLEAN,     \* show-ref finds refs/remotes/origin/<branch>
      fetch : BOOLEAN,      \* git fetch is not failed by the remote
      fork : BOOLEAN,       \* git branch <branch> main is not failed by git itself
      add : BOOLEAN,        \* git worktree add is not failed by git itself
      hook : SetupRuns ]

CreateEnv ==
    { e \in CreateEnvAll :
        /\ ~e.locator => e.repoOpen
        /\ ~(e.locator /\ e.repoOpen) => (e.remote /\ e.fetch)
        /\ ~(e.locator /\ e.repoOpen /\ e.fetch) => (e.fork /\ e.add)
        /\ e.remote => e.fork
        /\ ~(e.locator /\ e.repoOpen /\ e.fetch /\ e.add) => e.hook = NoHook }

\* main fetched whether or not the branch is on the remote
fetched_branch_always_main(remote_branch_exists, branch_name) == MainBranch

\* The local branch `git fetch origin <b>:<b>` writes: the branch itself when
\* it is on the remote, main otherwise
fetched_branch(remote_branch_exists, branch_name) ==
    IF remote_branch_exists THEN branch_name ELSE MainBranch

\* The text of the git error lost from the message
git_error_untold(text) == << "Git error: " >>

\* except GitCommandError as e: f"Git error: {str(e)}"
git_error(text) == << "Git error: ", text >>

create_worktree_with_branch(name, prefix, e) ==
    LET branch_name == BranchName(prefix, name)
        base == [ NoResult EXCEPT !.op = "create", !.name = name, !.prefix = prefix,
                                  !.branch = branch_name ]
        same == [ dirs |-> dirs, registered |-> registered, head |-> head,
                  localBranches |-> localBranches ]
        remote_branch_exists == e.remote
        fetched == fetched_branch(remote_branch_exists, branch_name)
        fetchOk == e.fetch /\ ~CheckedOut(fetched, registered, head)
        lb1 == localBranches \cup {fetched}
        forkOk == ~remote_branch_exists /\ e.fork /\ branch_name \notin lb1
        lb2 == IF forkOk THEN lb1 \cup {branch_name} ELSE lb1
        addOk ==
            /\ e.add
            /\ branch_name \in lb2
            /\ ~CheckedOut(branch_name, registered, head)
            /\ name \notin dirs
            /\ name \notin registered
        provisioned == [ base EXCEPT !.remoteExisted = remote_branch_exists,
                                     !.forked = forkOk ]
        created == [ dirs |-> dirs \cup {name},
                     registered |-> registered \cup {name},
                     head |-> [ head EXCEPT ![name] = branch_name ],
                     localBranches |-> lb2 ]
        hooked == [ provisioned EXCEPT !.added = TRUE,
                                       !.addTried = TRUE,
                                       !.hookExists = e.hook.exists,
                                       !.hookExc = e.hook.exc,
                                       !.hookCode = e.hook.code ]
    IN  IF ~e.locator
        THEN same @@
             [ result |-> [ base EXCEPT !.status = "raised",
                                        !.msg = << "ConfigError" >> ] ]
        ELSE IF ~e.repoOpen
        THEN same @@
             [ result |-> [ base EXCEPT !.status = "fail",
                                        !.msg = << "Unexpected error: ", "repo" >> ] ]
        ELSE IF ~fetchOk
        THEN same @@
             [ result |-> [ provisioned EXCEPT
                              !.status = "fail",
                              !.forked = FALSE,
                              !.msg = git_error("git: fetch failed") ] ]
        ELSE IF ~addOk
        THEN [ same EXCEPT !.localBranches = lb2 ] @@
             [ result |-> [ provisioned EXCEPT
                              !.status = "fail",
                              !.addTried = TRUE,
                              !.msg = git_error("git: worktree add failed") ] ]
        ELSE IF e.hook.exists /\ e.hook.exc # "none"
                /\ ~setup_exception_caught(e.hook.exc)
        THEN created @@
             [ result |-> [ hooked EXCEPT
                              !.status = "fail",
                              !.msg = << "Unexpected error: ", e.hook.exc >> ] ]
        ELSE created @@
             [ result |-> [ hooked EXCEPT !.status = "ok" ] ]

CreateWorktree(name, prefix, e) ==
    LET r == create_worktree_with_branch(name, prefix, e)
    IN  /\ ops < MaxOps
        /\ dirs' = r.dirs
        /\ registered' = r.registered
        /\ head' = r.head
        /\ localBranches' = r.localBranches
        /\ res' = r.result
        /\ ops' = ops + 1
        /\ UNCHANGED <<envFiles, notGit>>

\* Outside grove: the user switches the branch of a checkout (git switch), or
\* detaches its HEAD; git refuses a branch another worktree has checked out
ExternalCheckout(w, b) ==
    /\ ops < MaxOps
    /\ w \in dirs /\ w \in registered
    /\ b # head[w]
    /\ b = Detached \/ (b \in localBranches /\ ~CheckedOut(b, registered, head))
    /\ head' = [ head EXCEPT ![w] = b ]
    /\ res' = [ NoResult EXCEPT !.op = "external", !.name = w, !.branch = b ]
    /\ ops' = ops + 1
    /\ UNCHANGED <<dirs, registered, localBranches, envFiles, notGit>>

-----------------------------------------------------------------------------
(* The session orchestrator: create_or_switch_to_session *)

\* worktree_path.name.replace('.', '-')
SessionName(name) == [ i \in 1..Len(name) |-> IF name[i] = "." THEN "-" ELSE name[i] ]

NoSessionResult ==
    [ op |-> "none", name |-> <<>>,
      status |-> "none",       \* "ok" (True, ""), "fail" (False, msg)
      msg |-> <<>>,
      hadSession |-> FALSE,    \* a session of the derived name existed at the call
      created |-> FALSE,       \* new_session created the session in this call
      again |-> FALSE,         \* the call before this one was for the same path and
                               \* created the session
      editor |-> FALSE,        \* nvim <pr.md> was sent to the first pane
      hydration |-> "none",    \* where .tmux-sessionizer was found and run from
      script |-> "none",       \* where .tmux-sessionizer was found
      steps |-> <<>>,          \* what the call did to the session, in order
      mode |-> "none",         \* "switch" (switch-client) or "attach"
      tmuxOk |-> TRUE ]        \* no tmux query or command of the call failed

\* What tmux and the file system answer during one call
SessionEnvAll ==
    [ server : BOOLEAN,    \* get_tmux_server() returns a server
      query : BOOLEAN,     \* server.sessions.filter() in session_exists does not raise
      create : BOOLEAN,    \* tmux new-session is not failed by the server
      locator : BOOLEAN,   \* get_repo_path() returns
      write : BOOLEAN,     \* mkdir and write_text succeed
      keys : BOOLEAN,      \* send_keys succeeds
      script : {"none", "worktree", "parent", "home"},  \* first .tmux-sessionizer found
      run : BOOLEAN,       \* session.cmd('run-shell', ...) succeeds
      lookup : BOOLEAN,    \* server.sessions.filter() for the existing session
      inside : BOOLEAN,    \* TMUX is set in the environment
      attach : BOOLEAN ]   \* switch_client() / attach() succeeds

\* One representative per path: what is never consulted is held TRUE
SessionEnv ==
    { e \in SessionEnvAll :
        /\ ~e.server => (e.query /\ e.create /\ e.lookup /\ ~e.inside)
        /\ ~e.create => e.locator
        /\ ~e.locator => e.write
        /\ ~e.write => (e.keys /\ e.script = "none")
        /\ e.script = "none" => e.run
        /\ (~e.create \/ ~e.locator \/ ~e.write \/ ~e.lookup) => (e.attach /\ ~e.inside)
        /\ ~e.query => e.lookup }

\* session_exists always answering False
session_exists_never(server_sessions, session_name, queryOk) == FALSE

\* session_exists: an exception of the query counts as "no such session"
session_exists(server_sessions, session_name, queryOk) ==
    IF queryOk THEN session_name \in server_sessions ELSE FALSE

\* What a call does to the session before attaching, with the editor and the
\* hydration script launched on every call
session_steps_every_call(fresh, e) ==
    (IF fresh THEN << "new_session", "pr.md" >> ELSE << "lookup" >>)
    \o (IF e.keys THEN << "editor" >> ELSE <<>>)
    \o (IF e.script # "none" /\ e.run THEN << "hydration" >> ELSE <<>>)

\* What a call does to the session before attaching: _setup_new_session for a
\* session that did not exist (new session, pr.md template, nvim on pr.md by
\* send_keys, .tmux-sessionizer by run-shell -b, both best-effort), a lookup
\* for one that did
session_steps(fresh, e) ==
    IF fresh
    THEN << "new_session", "pr.md" >>
         \o (IF e.keys THEN << "editor" >> ELSE <<>>)
         \o (IF e.script # "none" /\ e.run THEN << "hydration" >> ELSE <<>>)
    ELSE << "lookup" >>

create_or_switch_to_session(name, e) ==
    LET session_name == SessionName(name)
        had == session_name \in sessions
        base == [ NoSessionResult EXCEPT
                    !.op = "session", !.name = name, !.hadSession = had,
                    !.again = (sres.op = "session" /\ sres.name = name /\ sres.created) ]
        same == [ sessions |-> sessions, prFiles |-> prFiles ]
        fresh == ~session_exists(sessions, session_name, e.query)
        \* libtmux refuses a second session of the same name
        newOk == e.create /\ session_name \notin sessions
        withSession == sessions \cup { session_name }
        tmuxError == << "Tmux error: ", "exception" >>
    IN  IF ~e.server
        THEN same @@
             [ result |-> [ base EXCEPT !.status = "fail", !.tmuxOk = FALSE,
                              !.msg = << "Could not connect to tmux server" >> ] ]
        ELSE IF fresh /\ ~newOk
        THEN same @@
             [ result |-> [ base EXCEPT !.status = "fail", !.msg = tmuxError,
                              !.tmuxOk = (e.query /\ e.create) ] ]
        ELSE IF fresh /\ ~e.locator
        THEN [ same EXCEPT !.sessions = withSession ] @@
             [ result |-> [ base EXCEPT !.status = "fail", !.msg = tmuxError,
                              !.created = TRUE, !.tmuxOk = e.query,
                              !.steps = << "new_session" >> ] ]
        ELSE IF fresh /\ ~e.write
        THEN [ same EXCEPT !.sessions = withSession ] @@
             [ result |-> [ base EXCEPT !.status = "fail", !.msg = tmuxError,
                              !.created = TRUE, !.tmuxOk = e.query,
                              !.steps = << "new_session" >> ] ]
        ELSE IF ~fresh /\ ~e.lookup
        THEN same @@
             [ result |-> [ base EXCEPT !.status = "fail", !.msg = tmuxError,
                              !.tmuxOk = FALSE ] ]
        ELSE LET after ==
                     IF fresh
                     THEN [ sessions |-> withSession,
                            prFiles |-> prFiles \cup { session_name } ]
                     ELSE same
                 done == session_steps(fresh, e)
                 setup ==
                     IF fresh
                     THEN [ base EXCEPT !.created = TRUE,
                                        !.editor = e.keys,
                                        !.script = e.script,
                                        !.hydration = IF e.run THEN e.script ELSE "none" ]
                     ELSE base
                 reached == [ setup EXCEPT
                                !.mode = IF e.inside THEN "switch" ELSE "attach",
                                !.steps = IF e.attach
                                          THEN Append(done, IF e.inside THEN "switch"
                                                            ELSE "attach")
                                          ELSE done,
                                !.tmuxOk = (e.query /\ e.attach) ]
             IN  after @@
                 [ result |-> IF e.attach
                              THEN [ reached EXCEPT !.status = "ok" ]
                              ELSE [ reached EXCEPT !.status = "fail",
                                                    !.msg = tmuxError ] ]

\* A call from the UI: the path is <repoRoot>/<name>
CreateOrSwitch(name, e) ==
    LET r == create_or_switch_to_session(name, e)
    IN  /\ sessions' = r.sessions
        /\ prFiles' = r.prFiles
        /\ sres' = r.result
        /\ UNCHANGED notTmux

\* get_worktree_metadata: the text of <repoRoot>/.grove/metadata/<name>/pr.md,
\* the empty string when that file does not exist
get_worktree_metadata(worktree_name) ==
    IF worktree_name \in prFiles
    THEN << "# Pull Request", "What are you building?" >>
    ELSE <<>>

\* Outside grove: a session ends (its last shell exits, or tmux kill-session)
ExternalKill(s) ==
    /\ s \in sessions
    /\ sessions' = sessions \ {s}
    /\ sres' = [ NoSessionResult EXCEPT !.op = "kill", !.name = s ]
    /\ UNCHANGED <<prFiles, notTmux>>

-----------------------------------------------------------------------------
(* The sync status computer: _get_sync_status *)

\* A remote-tracking branch is its path components; <<>> is Python's None
NoRef == <<>>

OriginMain == << "origin", "main" >>

Upstreams == { NoRef, << "origin", "feat" >>, << "fork", "feat" >> }

SyncInputs ==
    [ trackingExc : BOOLEAN,   \* current_branch.tracking_branch() raises
      upstream : Upstreams,    \* what tracking_branch() returns
      originMain : BOOLEAN,    \* repo.commit('origin/main') resolves
      rangeExc : BOOLEAN,      \* repo.iter_commits(<range>) raises
      ahead : 0..MaxCount,     \* commits in <comparison>..<current>
      behind : 0..MaxCount ]   \* commits in <current>..<comparison>

NoSyncInput ==
    [ trackingExc |-> FALSE, upstream |-> NoRef, originMain |-> FALSE,
      rangeExc |-> FALSE, ahead |-> 0, behind |-> 0 ]

NoSyncOutput ==
    [ done |-> FALSE, sync_status |-> "none", ahead_count |-> 0, behind_count |-> 0,
      comparison_branch_name |-> NoRef, comparison_branch |-> NoRef ]

\* The two one-sided labels exchanged
classify_swapped(ahead_count, behind_count) ==
    IF ahead_count = 0 /\ behind_count = 0 THEN "up-to-date"
    ELSE IF ahead_count > 0 /\ behind_count = 0 THEN "behind"
    ELSE IF ahead_count = 0 /\ behind_count > 0 THEN "ahead"
    ELSE "diverged"

\* The if/elif chain over the two counts
classify(ahead_count, behind_count) ==
    IF ahead_count = 0 /\ behind_count = 0 THEN "up-to-date"
    ELSE IF ahead_count > 0 /\ behind_count = 0 THEN "ahead"
    ELSE IF ahead_count = 0 /\ behind_count > 0 THEN "behind"
    ELSE "diverged"

\* display_name: "origin/" stripped from the front
DisplayName(ref) == IF ref # <<>> /\ Head(ref) = "origin" THEN Tail(ref) ELSE ref

get_sync_status(in) ==
    LET upstream == IF in.trackingExc THEN NoRef ELSE in.upstream
        comparison_branch ==
            IF upstream # NoRef THEN upstream
            ELSE IF in.originMain THEN OriginMain
            ELSE NoRef
        unknown == [ NoSyncOutput EXCEPT !.done = TRUE,
                                         !.sync_status = "no-upstream",
                                         !.comparison_branch = comparison_branch ]
    IN  IF comparison_branch = NoRef THEN unknown
        ELSE IF in.rangeExc
        THEN [ unknown EXCEPT
                 !.comparison_branch_name = DisplayName(comparison_branch) ]
        ELSE [ unknown EXCEPT
                 !.comparison_branch_name = DisplayName(comparison_branch),
                 !.ahead_count = in.ahead,
                 !.behind_count = in.behind,
                 !.sync_status = classify(in.ahead, in.behind) ]

-----------------------------------------------------------------------------
(* The commit log: get_worktree_git_log and _get_commit_list *)

\* The answers of git to _get_sync_status, one representative per path
LogSyncInputs ==
    { x \in SyncInputs :
        /\ x.trackingExc => x.upstream = NoRef
        /\ x.upstream # NoRef => ~x.originMain
        /\ (x.upstream = NoRef /\ ~x.originMain) =>
               (~x.rangeExc /\ x.ahead = 0 /\ x.behind = 0)
        /\ x.rangeExc => x.behind = 0 }

\* Whether an input ends the function before git is asked about the branch
EndsEarly(in) == ~in.locator \/ ~in.exists \/ in.repoExc \/ in.detached

LogInputs ==
    { in \in [ locator : BOOLEAN,     \* get_repo_path() returns
              exists : BOOLEAN,      \* worktree_path.exists()
              repoExc : BOOLEAN,     \* Repo(worktree_path) or repo.head raises
              detached : BOOLEAN,    \* repo.head.is_detached
              sync : LogSyncInputs,
              nCommits : 0..MaxCount, \* commits iter_commits(branch) yields
              listExc : BOOLEAN,     \* iter_commits(branch) raises
              pushedExc : BOOLEAN ] : \* iter_commits(comparison) raises
        /\ ~in.locator => in.exists
        /\ ~(in.locator /\ in.exists) => ~in.repoExc
        /\ ~(in.locator /\ in.exists /\ ~in.repoExc) => ~in.detached
        /\ EndsEarly(in) => (in.sync = NoSyncInput /\ in.nCommits = 0 /\ ~in.listExc)
        /\ in.listExc => in.nCommits = 0
        /\ ~in.listExc => in.sync.ahead <= in.nCommits
        /\ (EndsEarly(in) \/ in.listExc
            \/ (in.sync.upstream = NoRef /\ ~in.sync.originMain)) => ~in.pushedExc }

NoLogInput ==
    [ locator |-> TRUE, exists |-> FALSE, repoExc |-> FALSE, detached |-> FALSE,
      sync |-> NoSyncInput, nCommits |-> 0, listExc |-> FALSE, pushedExc |-> FALSE ]

\* _EMPTY_GIT_LOG, with what the model records about the call
EMPTY_GIT_LOG ==
    [ done |-> TRUE, raised |-> FALSE, sync_status |-> "no-upstream",
      ahead_count |-> 0, behind_count |-> 0, comparison_branch |-> NoRef,
      commits |-> <<>> ]

NoLogOutput == [ EMPTY_GIT_LOG EXCEPT !.done = FALSE, !.sync_status = "none" ]

\* Every listed commit marked pushed as soon as there is a comparison branch
get_commit_list_all_pushed(in, comparison_branch) ==
    IF in.listExc THEN <<>>
    ELSE [ i \in 1..in.nCommits |->
             [ hash |-> i,
               is_pushed |-> comparison_branch # NoRef /\ ~in.pushedExc ] ]

\* _get_commit_list: the newest commits of the branch, each marked pushed when
\* it is among the commits of the comparison branch
get_commit_list(in, comparison_branch) ==
    IF in.listExc THEN <<>>
    ELSE [ i \in 1..in.nCommits |->
             [ hash |-> i,
               is_pushed |-> /\ comparison_branch # NoRef
                             /\ ~in.pushedExc
                             /\ i > in.sync.ahead ] ]

get_worktree_git_log(in) ==
    IF ~in.locator
    THEN [ NoLogOutput EXCEPT !.done = TRUE, !.raised = TRUE ]
    ELSE IF ~in.exists THEN EMPTY_GIT_LOG
    ELSE IF in.repoExc THEN EMPTY_GIT_LOG
    ELSE IF in.detached THEN EMPTY_GIT_LOG
    ELSE LET status == get_sync_status(in.sync)
         IN  [ done |-> TRUE, raised |-> FALSE,
               sync_status |-> status.sync_status,
               ahead_count |-> status.ahead_count,
               behind_count |-> status.behind_count,
               comparison_branch |-> status.comparison_branch_name,
               commits |-> get_commit_list(in, status.comparison_branch) ]

-----------------------------------------------------------------------------
(* The pane preview cache: get_tmux_pane_preview *)

TMUX_PANE_CACHE_TTL == 30

\* What a preview is: a status string, or the captured windows
Payloads ==
    { [ kind |-> "status", text |-> t, content |-> 0 ] :
        t \in { "Tmux not available", "No active tmux session",
                "No windows in session", "Error capturing pane: " } }
    \cup { [ kind |-> "windows", text |-> "", content |-> c ] : c \in {1, 2} }

EmptyString == [ kind |-> "status", text |-> "", content |-> 0 ]

NoEntry == [ present |-> FALSE, timestamp |-> 0, data |-> EmptyString ]

NoPreview ==
    [ op |-> "none", name |-> <<>>,
      value |-> EmptyString,   \* what the call returned
      queried |-> FALSE,       \* the call asked the tmux server
      started |-> 0,           \* current_time of the call
      before |-> NoEntry ]     \* the cache entry the call found

\* An entry that never expires
cache_entry_fresh_forever(current_time, cached_timestamp) ==
    current_time >= cached_timestamp

\* An entry younger than the TTL only if it is no older than it
cache_entry_fresh_inclusive(current_time, cached_timestamp) ==
    current_time - cached_timestamp <= TMUX_PANE_CACHE_TTL

\* if current_time - cached_timestamp < TMUX_PANE_CACHE_TTL
cache_entry_fresh(current_time, cached_timestamp) ==
    current_time - cached_timestamp < TMUX_PANE_CACHE_TTL

\* The call for worktree_name: answer is what the tmux server shows when asked,
\* took the seconds the query lasts
get_tmux_pane_preview(worktree_name, answer, took) ==
    LET current_time == clock
        base == [ NoPreview EXCEPT !.op = "preview", !.name = worktree_name,
                                   !.started = current_time ]
    IN  IF worktree_name = <<>>
        THEN [ cache |-> cache, clock |-> clock,
               result |-> base ]
        ELSE IF cache[worktree_name].present
                /\ cache_entry_fresh(current_time, cache[worktree_name].timestamp)
        THEN [ cache |-> cache, clock |-> clock,
               result |-> [ base EXCEPT !.value = cache[worktree_name].data,
                                        !.before = cache[worktree_name] ] ]
        ELSE [ cache |-> [ cache EXCEPT ![worktree_name] =
                             [ present |-> TRUE, timestamp |-> clock + took,
                               data |-> answer ] ],
               clock |-> clock + took,
               result |-> [ base EXCEPT !.value = answer, !.queried = TRUE,
                                        !.before = cache[worktree_name] ] ]

Preview(worktree_name, answer, took) ==
    LET r == get_tmux_pane_preview(worktree_name, answer, took)
    IN  /\ took > 0 => ticks < MaxTicks
        /\ cache' = r.cache
        /\ clock' = r.clock
        /\ ticks' = IF r.clock # clock THEN ticks + 1 ELSE ticks
        /\ pres' = r.result
        /\ UNCHANGED notPane

\* Time passes between two refreshes of the UI
Tick(d) ==
    /\ ticks < MaxTicks
    /\ clock' = clock + d
    /\ ticks' = ticks + 1
    /\ pres' = [ NoPreview EXCEPT !.op = "tick" ]
    /\ UNCHANGED <<cache, notPane>>

-----------------------------------------------------------------------------
(* The orphan reconciler: GroveApp.cleanup_orphaned_worktrees *)

\* What `git status -b --porcelain` answers in a worktree at startup
ReconStatuses ==
    { [ exc |-> TRUE, text |-> <<>> ],
      NoStatus,
      [ exc |-> FALSE, text |-> << "##" >> ],
      [ exc |-> FALSE, text |-> << "##", "..." >> ],
      [ exc |-> FALSE, text |-> << "##", "...", "[gone]" >> ],
      [ exc |-> FALSE, text |-> << "##", "...", "\n", "M", "[gone]" >> ] }

\* Every worktree that is flagged is taken for an orphan
orphaned_worktrees_every_flagged(pr_worktrees, status) ==
    { n \in pr_worktrees : n \in dirs }

\* The flagged worktrees whose directory exists and whose remote branch is gone
orphaned_worktrees(pr_worktrees, status) ==
    { n \in pr_worktrees : n \in dirs /\ ~check_remote_branch_exists(status[n]) }

\* The orders a Python set can be iterated in
Orderings(S) ==
    { q \in SeqsUpTo(S, Cardinality(S)) : Len(q) = Cardinality(S) /\ Range(q) = S }

\* git status is run only in the flagged worktrees
StatusAnswers(pr_worktrees) ==
    { st \in [ Names -> ReconStatuses ] :
        \A n \in Names \ pr_worktrees : st[n] = NoStatus }

\* The notification the loop shows for one worktree
cleanup_notification(worktree_name, result) ==
    IF result.status = "ok" /\ result.msg # <<>>
    THEN [ text |-> << "Auto-cleaned worktree ", worktree_name, ": " >> \o result.msg,
           severity |-> "warning" ]
    ELSE IF result.status = "ok"
    THEN [ text |-> << "Auto-cleaned orphaned worktree: ", worktree_name >>,
           severity |-> "information" ]
    ELSE IF result.status = "fail"
    THEN [ text |-> << "Failed to auto-clean worktree ", worktree_name, ": " >>
                    \o result.msg,
           severity |-> "warning" ]
    ELSE [ text |-> << "Error cleaning worktree ", worktree_name, ": " >> \o result.msg,
           severity |-> "warning" ]

\* What tmux answers when the session of a cleaned worktree is looked for; with
\* no session of that name every answer leaves the server as it is
KillEnv(worktree_name) ==
    { k \in [ server : Answers(worktree_name \in sessions),
              query : Answers(worktree_name \in sessions),
              kill : Answers(worktree_name \in sessions) ] :
        /\ ~k.server => (k.query /\ k.kill)
        /\ ~k.query => k.kill }

\* The sessions left after the attempt to kill the one named worktree_name
sessions_after_cleanup(worktree_name, result, k) ==
    IF /\ result.status = "ok"
       /\ k.server
       /\ session_exists(sessions, worktree_name, k.query)
       /\ k.kill
    THEN sessions \ { worktree_name }
    ELSE sessions

\* How the attempt ended: not made, given up on an exception or a missing
\* server ("failed"), no session found under worktree_name ("absent"), or the
\* session found and killed
kill_outcome(worktree_name, result, k) ==
    IF result.status # "ok" THEN "none"
    ELSE IF ~k.server \/ ~k.query THEN "failed"
    ELSE IF ~session_exists(sessions, worktree_name, k.query) THEN "absent"
    ELSE IF k.kill THEN "killed"
    ELSE "failed"

\* Lines 559-576: the flagged worktrees are collected and probed
Collect ==
    /\ pc = "start"
    /\ \E locator \in BOOLEAN :
         IF ~locator
         THEN /\ pc' = "raised"
              /\ UNCHANGED <<started, seen, queue>>
         ELSE LET pr_worktrees == get_worktree_pr_status
              IN  \E st \in StatusAnswers(pr_worktrees) :
                    \E q \in Orderings(orphaned_worktrees(pr_worktrees, st)) :
                      /\ started' = [ dirs |-> dirs, flagged |-> pr_worktrees ]
                      /\ seen' = st
                      /\ queue' = q
                      /\ pc' = IF q = <<>> THEN "done" ELSE "cleanup"
    /\ UNCHANGED <<invoked, notes, gitVars, checkVars, tmuxVars, syncVars, paneVars,
                   viewVars, appVars>>

\* The batch given up at the first removal that does not succeed
after_iteration_abort_on_failure(rest, result) ==
    IF rest = <<>> \/ result.status # "ok" THEN "done" ELSE "cleanup"

\* Where the loop stands after an iteration: the try/except around the body
\* lets it go on to the next worktree whatever the removal returned or raised
after_iteration(rest, result) ==
    IF rest = <<>> THEN "done" ELSE "cleanup"

\* Lines 579-599: one iteration of the clean-up loop
CleanupStep ==
    /\ pc = "cleanup"
    /\ LET worktree_name == Head(queue)
       IN  \E e \in RemoveEnv(worktree_name), k \in KillEnv(worktree_name) :
             LET r == remove_worktree_with_branch(worktree_name, e)
             IN  /\ dirs' = r.dirs
                 /\ registered' = r.registered
                 /\ head' = r.head
                 /\ localBranches' = r.localBranches
                 /\ envFiles' = FilesLeft(r.dirs)
                 /\ res' = [ r.result EXCEPT
                                !.kill = kill_outcome(worktree_name, r.result, k) ]
                 /\ sessions' = sessions_after_cleanup(worktree_name, r.result, k)
                 /\ invoked' = invoked \cup { worktree_name }
                 /\ notes' = Append(notes, cleanup_notification(worktree_name, r.result))
                 /\ queue' = Tail(queue)
                 /\ pc' = after_iteration(Tail(queue), r.result)
    /\ UNCHANGED <<ops, started, seen, prFiles, sres, checkVars, syncVars, paneVars,
                   viewVars, appVars>>

-----------------------------------------------------------------------------
(* The hook scripts step by step: subprocess.run(..., timeout=...) *)

\* timeout=30 of the setup hook, timeout=60 of the teardown hook, in seconds
SETUP_TIMEOUT == 30

TEARDOWN_TIMEOUT == 60

NoHookRun ==
    [ op |-> "none",
      pc |-> "idle",       \* "git", "hook", "rest", "returned"
      exists |-> FALSE,    \* the hook script is there
      elapsed |-> 0,       \* seconds the hook script has been running
      run |-> NoHook,      \* how subprocess.run ended
      status |-> "none",
      msg |-> <<>> ]

hook_timeout(op) == IF op = "create" THEN SETUP_TIMEOUT ELSE TEARDOWN_TIMEOUT

\* subprocess.run called without a timeout
timeout_fires_never(op, elapsed) == FALSE

\* subprocess.run kills the script and raises TimeoutExpired once the timeout
\* has elapsed
timeout_fires(op, elapsed) == elapsed >= hook_timeout(op)

\* The operation is called; the teardown hook is the first thing a removal
\* runs, the setup hook the last thing a creation runs
CallOperation(op, exists) ==
    /\ hookRun.pc = "idle"
    /\ hookRun' = [ NoHookRun EXCEPT
                      !.op = op,
                      !.exists = exists,
                      !.pc = IF op = "create" THEN "git"
                             ELSE IF exists THEN "hook" ELSE "rest" ]
    /\ UNCHANGED <<submitVars, configVars, engineVars>>

\* create_worktree_with_branch up to git worktree add
GitSteps(ok) ==
    /\ hookRun.pc = "git"
    /\ hookRun' =
         IF ~ok
         THEN [ hookRun EXCEPT !.pc = "returned", !.status = "fail",
                               !.msg = git_error("git: worktree add failed") ]
         ELSE IF hookRun.exists
         THEN [ hookRun EXCEPT !.pc = "hook" ]
         ELSE [ hookRun EXCEPT !.pc = "returned", !.status = "ok" ]
    /\ UNCHANGED <<submitVars, configVars, engineVars>>

\* What the operation does once subprocess.run has ended as run
after_hook(run) ==
    IF hookRun.op = "create"
    THEN IF run.exc = "none" \/ setup_exception_caught(run.exc)
         THEN [ hookRun EXCEPT !.pc = "returned", !.run = run, !.status = "ok" ]
         ELSE [ hookRun EXCEPT !.pc = "returned", !.run = run, !.status = "fail",
                               !.msg = << "Unexpected error: ", run.exc >> ]
    ELSE [ hookRun EXCEPT !.pc = "rest", !.run = run,
                          !.msg = stop_docker_containers(run) ]

\* A second passes while the script runs
HookTick ==
    /\ hookRun.pc = "hook"
    /\ hookRun.elapsed < hook_timeout(hookRun.op)
    /\ hookRun' = [ hookRun EXCEPT !.elapsed = @ + 1 ]
    /\ UNCHANGED <<submitVars, configVars, engineVars>>

\* The script exits by itself before the timeout
HookExits(code) ==
    /\ hookRun.pc = "hook"
    /\ hookRun.elapsed < hook_timeout(hookRun.op)
    /\ hookRun' = after_hook([ exists |-> TRUE, exc |-> "none", code |-> code,
                               stderr |-> IF code = 0 THEN <<>> ELSE << "boom" >> ])
    /\ UNCHANGED <<submitVars, configVars, engineVars>>

\* The timeout fires: the script is killed and TimeoutExpired is raised
HookTimeout ==
    /\ hookRun.pc = "hook"
    /\ timeout_fires(hookRun.op, hookRun.elapsed)
    /\ hookRun' = after_hook([ exists |-> TRUE, exc |-> "timeout", code |-> 0,
                               stderr |-> <<>> ])
    /\ UNCHANGED <<submitVars, configVars, engineVars>>

\* remove_worktree_with_branch after the teardown hook
RestOfRemoval(ok) ==
    /\ hookRun.pc = "rest"
    /\ hookRun' =
         IF ok
         THEN [ hookRun EXCEPT !.pc = "returned", !.status = "ok",
                               !.msg = removal_message(hookRun.msg, <<>>) ]
         ELSE [ hookRun EXCEPT !.pc = "returned", !.status = "fail",
                               !.msg = << "Failed to remove directory: ", "oserror" >> ]
    /\ UNCHANGED <<submitVars, configVars, engineVars>>

-----------------------------------------------------------------------------
(* Pull request submission: GroveApp.handle_pr_submission *)

NoSubmission ==
    [ op |-> "none", worktree |-> <<>>,
      status |-> "none",       \* "returned", "raised"
      pushTried |-> FALSE,     \* git push was run
      push |-> "none",         \* how it ended: "0", "1", "timeout"
      prTried |-> FALSE,       \* gh pr create was run
      pr |-> "none",           \* how it ended: "0", "1", "timeout", "missing"
      flagWritten |-> FALSE,   \* .env was written with the flag
      before |-> NoFile,       \* the .env the handler found
      notes |-> <<>>,          \* notifications: severity and text
      exited |-> FALSE ]       \* self.exit() was called

\* What the user, git, gh and the file system answer during one submission,
\* one representative per path through the handler
SubmitEnv ==
    { e \in [ form : BOOLEAN,        \* the form was submitted, not cancelled
              locator : BOOLEAN,     \* get_repo_path() returns
              branch : { "ok", "1", "empty" },   \* git branch --show-current
              push : { "0", "1", "timeout" },    \* git push -u origin <branch>
              pr : { "0", "1", "timeout", "missing" },  \* gh pr create
              write : BOOLEAN,       \* write_text() does not raise
              url : BOOLEAN ] :      \* gh printed the pull request's URL
        /\ ~e.form => e.locator
        /\ ~(e.form /\ e.locator) => e.branch = "ok"
        /\ e.branch # "ok" => e.push = "0"
        /\ ~(e.form /\ e.locator) => e.push = "0"
        /\ e.push # "0" => e.pr = "0"
        /\ ~(e.form /\ e.locator) => e.pr = "0"
        /\ (~e.form \/ ~e.locator \/ e.branch # "ok" \/ e.push # "0" \/ e.pr # "0")
               => (e.write /\ e.url) }

\* A push whose exit code is never looked at
push_failed_never(returncode) == FALSE

\* if push_result.returncode != 0
push_failed(returncode) == returncode # "0"

\* line.startswith('WORKTREE_PR_PUBLISHED=')
StartsWithFlagKey(line) ==
    /\ line # <<>>
    /\ Head(line) \in { "WORKTREE_PR_PUBLISHED=true", "WORKTREE_PR_PUBLISHED=false" }

\* existing_content.strip().split('\n'): the whitespace around the whole
\* content goes, the lines in between are kept as they are
content_lines(file) ==
    LET n == Len(file.lines)
    IN  IF n = 0 THEN << <<>> >>
        ELSE [ i \in 1..n |->
                 IF n = 1 THEN Strip(file.lines[i])
                 ELSE IF i = 1 THEN LStrip(file.lines[i])
                 ELSE IF i = n THEN RStrip(file.lines[i])
                 ELSE file.lines[i] ]

\* The new content of .env: the first line that sets the flag is replaced, or
\* the flag is appended; a missing file is created with the flag alone
published_env(file) ==
    IF ~file.exists
    THEN [ exists |-> TRUE, readable |-> TRUE, lines |-> << FlagLine >> ]
    ELSE LET lines == content_lines(file)
             hits == { i \in 1..Len(lines) : StartsWithFlagKey(lines[i]) }
             first == CHOOSE i \in hits : \A j \in hits : i <= j
         IN  [ file EXCEPT !.lines = IF hits # {}
                                     THEN [ lines EXCEPT ![first] = FlagLine ]
                                     ELSE Append(lines, FlagLine) ]

Note(severity, text) == [ severity |-> severity, text |-> text ]

\* The handler for the selected worktree w: the .env it leaves and what it did
handle_pr_submission(w, e) ==
    LET base == [ NoSubmission EXCEPT !.op = "submit", !.worktree = w,
                                      !.status = "returned" ]
        file == IF w = <<>> THEN NoFile ELSE envFiles[w]
        stop(r, severity, text) ==
            [ file |-> file,
              result |-> [ r EXCEPT !.notes = << Note(severity, text) >> ] ]
        pushed == [ base EXCEPT !.pushTried = TRUE, !.push = e.push ]
        asked == [ pushed EXCEPT !.prTried = TRUE, !.pr = e.pr ]
        written == file.readable /\ e.write
        warned == IF written THEN <<>>
                  ELSE << Note("warning", "Warning: Could not write to .env file: ") >>
        told == IF e.url THEN <<>>
                ELSE << Note("information", "Pull request created successfully") >>
    IN  IF ~e.form THEN [ file |-> file, result |-> base ]
        ELSE IF w = <<>> THEN stop(base, "error", "No worktree selected")
        ELSE IF ~e.locator
        THEN [ file |-> file, result |-> [ base EXCEPT !.status = "raised" ] ]
        ELSE IF w \notin dirs THEN stop(base, "error", "Worktree directory not found: ")
        ELSE IF e.branch = "1"
        THEN stop(base, "error", "Failed to get current branch name")
        ELSE IF e.branch = "empty" THEN stop(base, "error", "No current branch found")
        ELSE IF e.push = "timeout" THEN stop(pushed, "error", "Command timed out")
        ELSE IF push_failed(e.push)
        THEN stop(pushed, "error", "Failed to push branch: ")
        ELSE IF e.pr = "timeout" THEN stop(asked, "error", "Command timed out")
        ELSE IF e.pr = "missing" THEN stop(asked, "error", "Command not found: ")
        ELSE IF e.pr # "0" THEN stop(asked, "error", "Failed to create PR: ")
        ELSE [ file |-> IF written THEN published_env(file) ELSE file,
               result |-> [ asked EXCEPT !.flagWritten = written,
                                         !.before = file,
                                         !.notes = warned \o told,
                                         !.exited = TRUE ] ]

SubmitPullRequest(w, e) ==
    LET r == handle_pr_submission(w, e)
    IN  /\ envFiles' = IF w = <<>> THEN envFiles ELSE [ envFiles EXCEPT ![w] = r.file ]
        /\ submission' = r.result
        /\ UNCHANGED <<dirs, registered, head, localBranches, res, ops, checkVars,
                       tmuxVars, syncVars, paneVars, reconVars, viewVars, hookVars,
                       configVars>>

-----------------------------------------------------------------------------
(* The configuration and the main loop *)

\* Paths as they are typed or stored: "~/r1" is the repository /r1 written
\* from the home directory, /tmp holds no .bare directory
RawPaths == { "/r1", "~/r1", "/r2", "/tmp" }

NoPath == ""

\* Path(p).expanduser().resolve()
Resolve(p) == IF p = "~/r1" THEN "/r1" ELSE p

\* Path(p).name
PathName(p) == IF p = "/r2" THEN "r2" ELSE IF p = "/tmp" THEN "tmp" ELSE "r1"

\* (Path(p).expanduser() / ".bare").is_dir()
HasBare(p) == Resolve(p) \in { "/r1", "/r2" }

NoConfig == [ exists |-> FALSE, repositories |-> <<>>, last_used |-> NoPath ]

NoConfigResult ==
    [ op |-> "none", path |-> NoPath, status |-> "none",
      stored |-> FALSE,    \* the resolved path was among the stored paths
      before |-> 0 ]       \* number of entries before the call

NoApp ==
    [ phase |-> "shell",   \* "shell": in main's loop; "running": GroveApp; "ended"
      cwd |-> "/tmp",      \* the directory grove was started in
      restart |-> FALSE,   \* restart_with_different_repo
      picked |-> NoPath,   \* the path picked in the switch-repository screen
      code |-> 0 ]         \* exit code

\* A version 1.0 file turned into a 2.0 one: the path is kept as it was written
migrate_v1_to_v2(repo_path) ==
    [ exists |-> TRUE,
      repositories |-> << [ name |-> PathName(repo_path), path |-> repo_path ] >>,
      last_used |-> repo_path ]

StoredPaths(c) == { c.repositories[i].path : i \in 1..Len(c.repositories) }

\* No path ever found among the configured ones
path_configured_never(repositories, p) == FALSE

\* for repo in config_data["repositories"]: if repo["path"] == str(repo_path_obj)
path_configured(repositories, p) ==
    \E i \in 1..Len(repositories) : repositories[i].path = p

\* add_repository on the configuration c: the configuration it leaves
add_repository(c, path, writeOk) ==
    LET resolved == Resolve(path)
        name == PathName(resolved)
        config_data == IF c.exists THEN c ELSE [ NoConfig EXCEPT !.exists = TRUE ]
        repos == config_data.repositories
        first == CHOOSE i \in 1..Len(repos) :
                    /\ repos[i].path = resolved
                    /\ \A j \in 1..(i - 1) : repos[j].path # resolved
    IN  IF ~HasBare(path) \/ ~writeOk
        THEN [ config |-> c, status |-> "raised" ]
        ELSE IF path_configured(repos, resolved)
        THEN [ config |-> [ config_data EXCEPT !.repositories[first].name = name ],
               status |-> "ok" ]
        ELSE [ config |-> [ config_data EXCEPT
                              !.repositories =
                                  Append(repos, [ name |-> name, path |-> resolved ]) ],
               status |-> "ok" ]

\* remove_repository on the configuration c
remove_repository(c, path, writeOk) ==
    LET resolved == Resolve(path)
    IN  IF ~c.exists \/ ~writeOk
        THEN [ config |-> c, status |-> "raised" ]
        ELSE [ config |->
                 [ c EXCEPT !.repositories =
                                SelectSeq(@, LAMBDA r : r.path # resolved),
                            !.last_used = IF @ = resolved THEN NoPath ELSE @ ],
               status |-> "ok" ]

\* find_repo_for_directory: the first configured repository that holds cwd
find_repo_for_directory(c, cwd) ==
    LET holding == { i \in 1..Len(c.repositories) :
                        Resolve(c.repositories[i].path) = cwd }
    IN  IF holding = {} THEN NoPath
        ELSE Resolve(c.repositories[CHOOSE i \in holding : \A j \in holding : i <= j].path)

\* select_repository_smart: the working directory, then last_used, then the
\* selection screen, where the user makes choice
select_repository_smart(c, cwd, choice) ==
    IF ~c.exists \/ c.repositories = <<>> THEN NoPath
    ELSE IF find_repo_for_directory(c, cwd) # NoPath
    THEN find_repo_for_directory(c, cwd)
    ELSE IF c.last_used # NoPath /\ c.last_used \in StoredPaths(c) THEN c.last_used
    ELSE choice

Ended(code) == [ app EXCEPT !.phase = "ended", !.code = code ]

\* One turn of main's loop: the setup wizard when there is no configuration,
\* the selection, set_active_repo and update_last_used, then GroveApp runs
Launch(wizardPick, choice, writeOk) ==
    /\ app.phase = "shell"
    /\ config.exists => wizardPick = NoPath
    /\ LET added == IF config.exists THEN [ config |-> config, status |-> "ok" ]
                    ELSE add_repository(config, wizardPick, writeOk)
           repo_path == select_repository_smart(added.config, app.cwd, choice)
       IN  /\ choice \in StoredPaths(added.config) \cup { NoPath }
           /\ IF ~config.exists /\ wizardPick = NoPath
              THEN /\ app' = Ended(0)
                   /\ UNCHANGED <<config, active>>
              ELSE IF added.status # "ok"
              THEN /\ app' = Ended(1)
                   /\ UNCHANGED <<config, active>>
              ELSE IF repo_path = NoPath
              THEN /\ app' = Ended(0)
                   /\ config' = added.config
                   /\ UNCHANGED active
              ELSE IF ~writeOk
              THEN /\ app' = Ended(1)
                   /\ config' = added.config
                   /\ active' = Resolve(repo_path)
              ELSE /\ app' = [ app EXCEPT !.phase = "running", !.restart = FALSE ]
                   /\ config' = [ added.config EXCEPT !.last_used = Resolve(repo_path) ]
                   /\ active' = Resolve(repo_path)
    /\ UNCHANGED <<cfgRes, hookVars, submitVars, engineVars>>

\* action_switch_repository and its handle_selection: a path other than the
\* current repository's marks the restart and ends the running application
SwitchRepository(selected_path) ==
    /\ app.phase = "running"
    /\ selected_path \in StoredPaths(config) \cup { NoPath }
    /\ app' = IF selected_path # NoPath /\ selected_path # active
              THEN [ app EXCEPT !.restart = TRUE, !.phase = "shell",
                                !.picked = selected_path ]
              ELSE app
    /\ UNCHANGED <<config, cfgRes, active, hookVars, submitVars, engineVars>>

\* The user quits GroveApp: main leaves its loop
QuitApp ==
    /\ app.phase = "running"
    /\ app' = Ended(0)
    /\ UNCHANGED <<config, cfgRes, active, hookVars, submitVars, engineVars>>

\* add_repository called from the selection screen
AddRepository(path, writeOk) ==
    LET r == add_repository(config, path, writeOk)
    IN  /\ app.phase = "running"
        /\ config' = r.config
        /\ cfgRes' = [ op |-> "add", path |-> path, status |-> r.status,
                       stored |-> Resolve(path) \in StoredPaths(config),
                       before |-> Len(config.repositories) ]
        /\ UNCHANGED <<active, app, hookVars, submitVars, engineVars>>

\* remove_repository called from the selection screen
RemoveRepository(path, writeOk) ==
    LET r == remove_repository(config, path, writeOk)
    IN  /\ app.phase = "running"
        /\ path \in StoredPaths(config)
        /\ config' = r.config
        /\ cfgRes' = [ op |-> "remove", path |-> path, status |-> r.status,
                       stored |-> Resolve(path) \in StoredPaths(config),
                       before |-> Len(config.repositories) ]
        /\ UNCHANGED <<active, app, hookVars, submitVars, engineVars>>

-----------------------------------------------------------------------------
(* Starting points shared by the specifications *)

\* A fresh clone: the bare repository with its main branch and no worktree
FreshClone ==
    /\ dirs = {}
    /\ registered = {}
    /\ head = [ m \in Names |-> NoBranch ]
    /\ localBranches = { MainBranch }
    /\ envFiles = [ m \in Names |-> NoFile ]
    /\ res = NoResult
    /\ ops = 0

\* The probe at rest
CheckIdle ==
    /\ statusOut = [ exc |-> FALSE, text |-> <<>> ]
    /\ checked = "none"

\* A tmux server without sessions, no metadata written yet
TmuxIdle ==
    /\ sessions = {}
    /\ prFiles = {}
    /\ sres = NoSessionResult

\* No sync status asked for
SyncIdle ==
    /\ syncIn = NoSyncInput
    /\ syncOut = NoSyncOutput

\* The reconciler has run, or is not looked at
ReconIdle ==
    /\ pc = "done"
    /\ started = [ dirs |-> {}, flagged |-> {} ]
    /\ seen = [ n \in Names |-> NoStatus ]
    /\ queue = <<>>
    /\ invoked = {}
    /\ notes = <<>>

\* No hook running, nothing submitted, no configuration yet
HookIdle == hookRun = NoHookRun

SubmitIdle == submission = NoSubmission

ConfigIdle ==
    /\ config = NoConfig
    /\ cfgRes = NoConfigResult
    /\ active = NoPath
    /\ app = NoApp

AppIdle == HookIdle /\ SubmitIdle /\ ConfigIdle

\* No log and no listing asked for
ViewIdle ==
    /\ logIn = NoLogInput
    /\ logOut = NoLogOutput
    /\ listIn = NoListInput
    /\ listOut = NoListOutput

\* The module just imported: an empty pane cache
PaneIdle ==
    /\ clock = 0
    /\ ticks = 0
    /\ cache = [ n \in Names |-> NoEntry ]
    /\ pres = NoPreview

-----------------------------------------------------------------------------
(* The worktree operations' specification *)

Init ==
    /\ AppIdle
    /\ FreshClone
    /\ ReconIdle
    /\ PaneIdle
    /\ ViewIdle
    /\ CheckIdle
    /\ TmuxIdle
    /\ SyncIdle

Next ==
    \/ \E n \in Names, p \in Prefixes, e \in CreateEnv : CreateWorktree(n, p, e)
    \/ \E w \in Names : \E e \in RemoveEnv(w) : RemoveWorktree(w, e)
    \/ \E w \in Names, b \in Branches \cup {Detached} : ExternalCheckout(w, b)

Spec == Init /\ [][Next]_vars

-----------------------------------------------------------------------------
(* The remote-branch probe's specification *)

CheckInit ==
    /\ AppIdle
    /\ FreshClone
    /\ ReconIdle
    /\ PaneIdle
    /\ ViewIdle
    /\ TmuxIdle
    /\ SyncIdle
    /\ statusOut \in StatusOutputs
    /\ checked = "none"

\* One call of the probe on the output git gave
CheckRemoteBranch ==
    /\ checked = "none"
    /\ checked' = IF check_remote_branch_exists(statusOut) THEN "exists" ELSE "gone"
    /\ UNCHANGED <<statusOut, notCheck>>

CheckNext == CheckRemoteBranch

CheckSpec == CheckInit /\ [][CheckNext]_vars

-----------------------------------------------------------------------------
(* The session orchestrator's specification *)

SessionInit ==
    /\ AppIdle
    /\ FreshClone
    /\ ReconIdle
    /\ PaneIdle
    /\ ViewIdle
    /\ CheckIdle
    /\ TmuxIdle
    /\ SyncIdle

SessionNext ==
    \/ \E n \in Names, e \in SessionEnv : CreateOrSwitch(n, e)
    \/ \E s \in sessions : ExternalKill(s)

SessionSpec == SessionInit /\ [][SessionNext]_vars

-----------------------------------------------------------------------------
(* The sync status computer's specification *)

\* One computation, on the answers git gives
ComputeSync ==
    /\ ~syncOut.done
    /\ syncOut' = get_sync_status(syncIn)
    /\ UNCHANGED <<syncIn, notSync>>

SyncInit ==
    /\ AppIdle
    /\ FreshClone
    /\ ReconIdle
    /\ PaneIdle
    /\ ViewIdle
    /\ CheckIdle
    /\ TmuxIdle
    /\ syncIn \in SyncInputs
    /\ syncOut = NoSyncOutput

SyncNext == ComputeSync

SyncSpec == SyncInit /\ [][SyncNext]_vars

-----------------------------------------------------------------------------
(* The pane preview cache's specification *)

PaneInit ==
    /\ AppIdle
    /\ FreshClone
    /\ ReconIdle
    /\ CheckIdle
    /\ TmuxIdle
    /\ SyncIdle
    /\ PaneIdle
    /\ ViewIdle

PaneNext ==
    \/ \E n \in Names \cup { <<>> }, a \in Payloads, d \in {0, 1} : Preview(n, a, d)
    \/ \E d \in { 1, TMUX_PANE_CACHE_TTL - 1 } : Tick(d)

PaneSpec == PaneInit /\ [][PaneNext]_vars

-----------------------------------------------------------------------------
(* The orphan reconciler's specification *)

\* Worktrees made by create_worktree_with_branch, each on its own branch, with
\* whatever .env the review tooling left, and the reconciler about to start
ReconInit ==
    /\ AppIdle
    /\ dirs \in SUBSET Names
    /\ registered = dirs
    /\ head = [ m \in Names |-> IF m \in dirs THEN BranchName(<<>>, m) ELSE NoBranch ]
    /\ localBranches = { MainBranch } \cup { BranchName(<<>>, m) : m \in dirs }
    /\ envFiles \in [ Names -> EnvContents ]
    /\ \A m \in Names \ dirs : envFiles[m] = NoFile
    /\ res = NoResult
    /\ ops = 0
    /\ sessions \in SUBSET { SessionName(m) : m \in dirs }
    /\ prFiles = {}
    /\ sres = NoSessionResult
    /\ pc = "start"
    /\ started = [ dirs |-> {}, flagged |-> {} ]
    /\ seen = [ n \in Names |-> NoStatus ]
    /\ queue = <<>>
    /\ invoked = {}
    /\ notes = <<>>
    /\ CheckIdle
    /\ SyncIdle
    /\ PaneIdle
    /\ ViewIdle

ReconNext ==
    \/ Collect
    \/ CleanupStep

ReconcileSpec == ReconInit /\ [][ReconNext]_vars

-----------------------------------------------------------------------------
(* The commit log's specification *)

\* One call, on the answers the locator and git give
ComputeLog ==
    /\ ~logOut.done
    /\ logOut' = get_worktree_git_log(logIn)
    /\ UNCHANGED <<logIn, listIn, listOut, notView>>

LogInit ==
    /\ AppIdle
    /\ FreshClone
    /\ ReconIdle
    /\ PaneIdle
    /\ CheckIdle
    /\ TmuxIdle
    /\ SyncIdle
    /\ logIn \in LogInputs
    /\ logOut = NoLogOutput
    /\ listIn = NoListInput
    /\ listOut = NoListOutput

LogNext == ComputeLog

LogSpec == LogInit /\ [][LogNext]_vars

-----------------------------------------------------------------------------
(* The worktree listing's specification *)

\* One call of get_worktree_directories
ListDirectories ==
    /\ ~listOut.done
    /\ listOut' = [ done |-> TRUE,
                    names |-> worktree_directories_of(listIn.locator, listIn.items) ]
    /\ UNCHANGED <<listIn, logIn, logOut, notView>>

ListInit ==
    /\ AppIdle
    /\ FreshClone
    /\ ReconIdle
    /\ PaneIdle
    /\ CheckIdle
    /\ TmuxIdle
    /\ SyncIdle
    /\ logIn = NoLogInput
    /\ logOut = NoLogOutput
    /\ listIn \in ListInputs
    /\ listOut = NoListOutput

ListNext == ListDirectories

ListSpec == ListInit /\ [][ListNext]_vars

-----------------------------------------------------------------------------
(* The hook run's specifications *)

HookInit ==
    /\ FreshClone
    /\ ReconIdle
    /\ CheckIdle
    /\ TmuxIdle
    /\ SyncIdle
    /\ PaneIdle
    /\ ViewIdle
    /\ SubmitIdle
    /\ ConfigIdle
    /\ HookIdle

GitReturns == \E ok \in BOOLEAN : GitSteps(ok)

RemovalCompletes == \E ok \in BOOLEAN : RestOfRemoval(ok)

HookNext ==
    \/ \E op \in { "create", "remove" }, exists \in BOOLEAN : CallOperation(op, exists)
    \/ GitReturns
    \/ HookTick
    \/ \E code \in {0, 1} : HookExits(code)
    \/ HookTimeout
    \/ RemovalCompletes

HookSpec == HookInit /\ [][HookNext]_vars

\* Time passes and subprocess.run enforces its timeout; git and the file
\* system answer every call made to them
HookFairSpec ==
    /\ HookSpec
    /\ WF_vars(HookTick)
    /\ WF_vars(HookTimeout)
    /\ WF_vars(GitReturns)
    /\ WF_vars(RemovalCompletes)

-----------------------------------------------------------------------------
(* The pull request submission's specification *)

\* Worktrees with whatever .env they have, one of them selected in the sidebar
SubmitInit ==
    /\ dirs \in SUBSET Names
    /\ registered = dirs
    /\ head = [ m \in Names |-> IF m \in dirs THEN BranchName(<<>>, m) ELSE NoBranch ]
    /\ localBranches = { MainBranch } \cup { BranchName(<<>>, m) : m \in dirs }
    /\ envFiles \in [ Names -> EnvContents ]
    /\ \A m \in Names \ dirs : envFiles[m] = NoFile
    /\ res = NoResult
    /\ ops = 0
    /\ ReconIdle
    /\ CheckIdle
    /\ TmuxIdle
    /\ SyncIdle
    /\ PaneIdle
    /\ ViewIdle
    /\ AppIdle

SubmitNext ==
    \E w \in Names \cup { <<>> }, e \in SubmitEnv : SubmitPullRequest(w, e)

SubmitSpec == SubmitInit /\ [][SubmitNext]_vars

-----------------------------------------------------------------------------
(* The configuration's specification *)

\* grove started in some directory, with no configuration yet or with one
\* carried over from version 1.0
ConfigInit ==
    /\ FreshClone
    /\ ReconIdle
    /\ CheckIdle
    /\ TmuxIdle
    /\ SyncIdle
    /\ PaneIdle
    /\ ViewIdle
    /\ HookIdle
    /\ SubmitIdle
    /\ config \in { NoConfig } \cup { migrate_v1_to_v2(p) : p \in { "/r1", "~/r1" } }
    /\ cfgRes = NoConfigResult
    /\ active = NoPath
    /\ app \in { [ NoApp EXCEPT !.cwd = d ] : d \in { "/r1", "/r2", "/tmp" } }

ConfigNext ==
    \/ \E w \in RawPaths \cup { NoPath }, c \in RawPaths \cup { NoPath },
          ok \in BOOLEAN : Launch(w, c, ok)
    \/ \E p \in RawPaths \cup { NoPath } : SwitchRepository(p)
    \/ QuitApp
    \/ \E p \in RawPaths, ok \in BOOLEAN : AddRepository(p, ok)
    \/ \E p \in RawPaths, ok \in BOOLEAN : RemoveRepository(p, ok)

ConfigSpec == ConfigInit /\ [][ConfigNext]_vars

-----------------------------------------------------------------------------
(* Claims about the worktree operations *)

\* The hook run the last operation observed
ObservedHook ==
    [ exists |-> res.hookExists, exc |-> res.hookExc, code |-> res.hookCode,
      stderr |-> res.hookStderr ]

\* C1: whenever remove_worktree_with_branch(w) returns success, the directory
\* <repoRoot>/w no longer exists and get_worktree_directories() does not list w,
\* whatever warnings the teardown hook or the branch deletion produced.
C1_RemovedNeverListed ==
    (res.op = "remove" /\ res.status = "ok") =>
        /\ res.name \notin dirs
        /\ res.name \notin Range(get_worktree_directories)

\* A removal of an existing checkout that succeeded with both warnings
C1_Witness ==
    /\ res.op = "remove" /\ res.status = "ok"
    /\ res.branch # NoBranch /\ res.branchError
    /\ stop_docker_containers(ObservedHook) # <<>>
    /\ res.name \notin dirs

\* C2: when create_worktree_with_branch(n, p) returns success, <repoRoot>/n exists,
\* is registered as a git worktree, and the branch checked out in it is p+n.
C2_CreatedOnPrefixedBranch ==
    (res.op = "create" /\ res.status = "ok") =>
        /\ res.name \in dirs
        /\ res.name \in registered
        /\ head[res.name] = res.prefix \o res.name

\* A successful creation with a non-empty prefix
C2_Witness ==
    /\ res.op = "create" /\ res.status = "ok"
    /\ res.prefix # <<>>
    /\ res.name \in dirs

\* C8: if the teardown hook exits non-zero and the directory removal succeeds, the
\* result is success with a warning containing "Docker cleanup had warnings".
C8_NonZeroHookWarns ==
    ( /\ res.op = "remove"
      /\ res.hookExists /\ res.hookExc = "none" /\ res.hookCode # 0
      /\ res.dirGone ) =>
        /\ res.status = "ok"
        /\ res.msg # <<>>
        /\ "Docker cleanup had warnings: " \in Range(res.msg)

\* C9: the removal returns success whenever the directory removal succeeded; its
\* message is non-empty exactly when the teardown hook or the branch deletion
\* produced a warning, and then holds every such warning.
C9_WarningsJoined ==
    (res.op = "remove" /\ res.dirGone) =>
        LET hookWarning == stop_docker_containers(ObservedHook)
        IN  /\ res.status = "ok"
            /\ (res.msg # <<>>) <=> (hookWarning # <<>> \/ res.branchError)
            /\ hookWarning # <<>> => Contains(hookWarning, res.msg)
            /\ res.branchError => "Branch deletion failed: " \in Range(res.msg)

\* A removal that succeeded although the hook timed out and git branch -D failed
C9_Witness ==
    /\ res.op = "remove" /\ res.dirGone /\ res.status = "ok"
    /\ res.hookExc = "timeout" /\ res.branchError
    /\ Len(res.msg) > 3

\* C10: when the setup hook exists and fails (non-zero exit, timeout, or it cannot
\* be executed), create_worktree_with_branch still returns success.
C10_SetupFailureNotFatal ==
    ( /\ res.op = "create"
      /\ res.added
      /\ res.hookExists
      /\ (res.hookExc # "none" \/ res.hookCode # 0) ) =>
        res.status = "ok"

\* The branch a checkout is on: none when its directory is missing or its HEAD
\* is detached
CheckoutBranch(w) ==
    IF w \in dirs /\ head[w] \notin { Detached, NoBranch } THEN head[w] ELSE NoBranch

\* A step that is one call of remove_worktree_with_branch that returned
RemovalReturns ==
    /\ ops' = ops + 1
    /\ res'.op = "remove"
    /\ res'.status \in {"ok", "fail"}

\* C16: the branch remove_worktree_with_branch force-deletes is the branch
\* checked out in the worktree when it is called, and no other branch is lost;
\* with the directory missing or HEAD detached no deletion is attempted, and
\* the operation succeeds without a branch warning if the directory is removed.
C16_DeletesCheckedOutBranch ==
    [][RemovalReturns =>
        LET w == res'.name
            b == CheckoutBranch(w)
        IN  /\ (res'.branchDeleted \/ res'.branchError) =>
                   (b # NoBranch /\ res'.branch = b)
            /\ res'.branchDeleted =>
                   (b \in localBranches /\ localBranches' = localBranches \ {b})
            /\ ~res'.branchDeleted => localBranches' = localBranches
            /\ b = NoBranch =>
                   /\ ~res'.branchDeleted /\ ~res'.branchError
                   /\ res'.dirGone =>
                        /\ res'.status = "ok"
                        /\ "Branch deletion failed: " \notin Range(res'.msg)]_vars

\* A worktree switched to another branch after its creation was removed, and
\* the branch deleted is the one it was on, not prefix + name
C16_Witness ==
    /\ res.op = "remove"
    /\ res.status = "ok"
    /\ res.branchDeleted
    /\ res.branch \notin { BranchName(p, res.name) : p \in Prefixes }
    /\ res.branch \notin localBranches

\* C29: for every name n and prefix p, when create_worktree_with_branch(n, p)
\* has succeeded and the next operation, remove_worktree_with_branch(n),
\* succeeds without a branch-deletion warning, the directory of n and the
\* local branch p + n are both gone, whether the creation made the branch or
\* found it: the branch removed is the one the creation checked out.
C29_CreateThenRemoveLeavesNothing ==
    [][(/\ res.op = "create" /\ res.status = "ok"
        /\ RemovalReturns
        /\ res'.name = res.name
        /\ res'.status = "ok"
        /\ ~res'.branchError) =>
           /\ res.name \notin dirs'
           /\ BranchName(res.prefix, res.name) \notin localBranches'
           /\ res'.branchDeleted
           /\ res'.branch = BranchName(res.prefix, res.name)]_vars

\* A worktree created on a prefixed branch and removed by the next operation
C29_Witness ==
    /\ ops = 2
    /\ res.op = "remove" /\ res.status = "ok"
    /\ res.msg = <<>>
    /\ res.branchDeleted
    /\ res.branch = BranchName(<< "e", "p", "/" >>, res.name)
    /\ res.name \notin dirs
    /\ localBranches = { MainBranch }

\* A removal that failed at the directory
DirectoryNotRemoved(r) ==
    /\ r.op = "remove"
    /\ r.status = "fail"
    /\ Head(r.msg) = "Failed to remove directory: "

\* C30: when remove_worktree_with_branch fails because the directory could not
\* be removed, the directory is still there, no branch is deleted (the local
\* branches are those from before the call, and no deletion was attempted) and
\* git worktree prune has not run: no registration whose directory was missing
\* is dropped.
C30_DirectoryFailureStopsThere ==
    [][(RemovalReturns /\ DirectoryNotRemoved(res')) =>
        /\ res'.name \in dirs /\ dirs' = dirs
        /\ localBranches' = localBranches
        /\ ~res'.branchDeleted /\ ~res'.branchError
        /\ ~res'.pruned /\ ~res'.dirGone
        /\ \A m \in registered \ dirs : m \in registered']_vars

\* A removal that failed at the directory of a checkout on a local branch
C30_Witness ==
    /\ DirectoryNotRemoved(res)
    /\ res.branch # NoBranch
    /\ res.branch \in localBranches
    /\ res.name \in dirs
    /\ res.name \in registered

\* A step that is one call of create_worktree_with_branch that returned
CreationReturns ==
    /\ ops' = ops + 1
    /\ res'.op = "create"
    /\ res'.status \in {"ok", "fail"}

\* The texts git gives for its failures
GitErrorTexts == { "git: fetch failed", "git: worktree add failed" }

\* C19 as stated: after a git step of create_worktree_with_branch failed, the
\* result is a failure with one message holding the git error text, the
\* worktree is not registered and the setup hook has not been invoked.
C19_GitFailureLeavesUnregistered ==
    (res.op = "create" /\ res.status = "fail" /\ Head(res.msg) = "Git error: ") =>
        /\ Len(res.msg) = 2 /\ res.msg[2] \in GitErrorTexts
        /\ res.name \notin registered
        /\ ~res.hookExists /\ res.hookExc = "none"

\* C19: when a git step of create_worktree_with_branch fails, the result is a
\* failure with one message holding the git error text, the operation registers
\* no worktree and makes no directory (registrations, directories and checkouts
\* are those from before the call), and the setup hook is not invoked; a call
\* for a name whose directory exists always fails.
C19_GitFailureRegistersNothing ==
    [][CreationReturns =>
        /\ (res'.status = "fail" /\ Head(res'.msg) = "Git error: ") =>
             /\ Len(res'.msg) = 2 /\ res'.msg[2] \in GitErrorTexts
             /\ registered' = registered /\ dirs' = dirs /\ head' = head
             /\ ~res'.added
             /\ ~res'.hookExists /\ res'.hookExc = "none"
        /\ res'.name \in dirs =>
             (res'.status = "fail" /\ res'.msg # <<>> /\ ~res'.added)]_vars

\* The name was taken: worktree add failed and the earlier worktree is still
\* registered
C19_Witness ==
    /\ res.op = "create"
    /\ res.status = "fail"
    /\ res.msg = << "Git error: ", "git: worktree add failed" >>
    /\ res.name \in registered
    /\ res.name \in dirs

\* The messages of a creation that ended before the branch was provisioned
EndedBeforeProvisioning ==
    { git_error("git: fetch failed"), << "Unexpected error: ", "repo" >> }

\* C20: when refs/remotes/origin/<p+n> exists the branch is fetched into the
\* local branch of the same name and nothing is forked from main; otherwise main
\* is fetched and p+n is created from it unless it exists locally already, and
\* in either case, once the fetch succeeded, `git worktree add` is run: a branch
\* that could not be created does not end the operation.
C20_BranchProvisioning ==
    [][CreationReturns =>
        /\ localBranches \subseteq localBranches'
        /\ res'.branch = res'.prefix \o res'.name
        /\ res'.forked => ~res'.remoteExisted
        /\ res'.msg \notin EndedBeforeProvisioning =>
             /\ res'.addTried
             /\ res'.remoteExisted =>
                  /\ res'.branch \in localBranches'
                  /\ localBranches' = localBranches \cup { res'.branch }
             /\ ~res'.remoteExisted =>
                  /\ MainBranch \in localBranches'
                  /\ res'.forked <=>
                       (res'.branch \notin localBranches /\ res'.branch \in localBranches')
                  /\ (res'.branch \in localBranches /\ res'.branch # MainBranch) =>
                       localBranches' = localBranches \cup { MainBranch }]_vars

\* The branch was left over from an earlier worktree, is not on the remote, and
\* the worktree was created on it all the same
C20_Witness ==
    /\ res.op = "create"
    /\ res.status = "ok"
    /\ ~res.remoteExisted
    /\ ~res.forked
    /\ res.addTried
    /\ head[res.name] = res.branch

-----------------------------------------------------------------------------
(* Claims about the remote-branch probe *)

\* The first line of the output (what follows its leading whitespace, up to the
\* first line end) holds the [gone] marker
GoneOnFirstLine(t) ==
    \E i \in 1..Len(t) :
        /\ t[i] = "[gone]"
        /\ \A j \in 1..(i - 1) :
               t[j] = "\n" => \A k \in 1..j : t[k] \in Whitespace

-----------------------------------------------------------------------------
(* Claims about the orphan reconciler *)

\* The flagged worktrees whose tracking status, as the reconciler got it,
\* carries the [gone] marker
FlaggedGone ==
    { n \in started.flagged : ~seen[n].exc /\ GoneOnFirstLine(seen[n].text) }

\* C3: the reconciler invokes remove_worktree_with_branch on every worktree that
\* is flagged review-submitted and whose tracking status carries [gone], and on
\* no other; a flagged worktree whose remote branch is present and a worktree
\* that is not flagged keep their directory, registration and branch.
C3_OnlyGoneFlaggedRemoved ==
    /\ invoked \subseteq FlaggedGone
    /\ (pc = "done" => invoked = FlaggedGone)
    /\ \A n \in started.dirs \ FlaggedGone :
         /\ n \in dirs
         /\ n \in registered
         /\ head[n] = BranchName(<<>>, n)
         /\ head[n] \in localBranches

\* Both worktrees flagged, one gone and invoked, the other present and untouched
C3_Witness ==
    /\ pc = "done"
    /\ Cardinality(started.flagged) = 2
    /\ Cardinality(invoked) = 1
    /\ \E n \in started.flagged \ invoked :
         seen[n].text = << "##", "...", "\n", "M", "[gone]" >> /\ n \in dirs
    /\ \E n \in invoked : n \notin dirs

\* The worktrees the reconciler queued for clean-up
Orphans ==
    { n \in started.flagged :
        n \in started.dirs /\ ~check_remote_branch_exists(seen[n]) }

\* The notifications that name worktree n
NotesAbout(n) == { i \in 1..Len(notes) : notes[i].text[2] = n }

\* C13: the reconciler shows exactly one notification for each orphaned worktree
\* it processes, the one that fits what the removal returned or raised, and a
\* failed or raising removal does not keep the remaining orphans from being
\* processed: when the loop ends every queued orphan has been processed.
C13_OneNotificationEach ==
    /\ Len(notes) = Cardinality(invoked)
    /\ \A n \in invoked : Cardinality(NotesAbout(n)) = 1
    /\ \A n \in Names \ invoked : NotesAbout(n) = {}
    /\ invoked # {} => notes[Len(notes)] = cleanup_notification(res.name, res)
    /\ pc \in {"cleanup", "done"} => invoked \cup Range(queue) = Orphans
    /\ pc = "done" => queue = <<>>

\* Two orphans: the removal of the first failed or raised, the second was
\* cleaned all the same
C13_Witness ==
    /\ pc = "done"
    /\ Len(notes) = 2
    /\ notes[1].text[1] \in { "Failed to auto-clean worktree ",
                              "Error cleaning worktree " }
    /\ notes[2].severity = "information"
    /\ Cardinality(invoked) = 2

\* The reconciler has asked get_worktree_pr_status and removed nothing yet
FlagsCollected == pc \in {"cleanup", "done"} /\ invoked = {}

\* C17 as stated: the set returned is exactly the listed worktrees whose .env
\* contains a line equal to WORKTREE_PR_PUBLISHED=true.
C17_ExactlyLineEqual ==
    FlagsCollected =>
        started.flagged =
            { d \in Range(get_worktree_directories) :
                /\ envFiles[d].exists
                /\ \E i \in 1..Len(envFiles[d].lines) : envFiles[d].lines[i] = FlagLine }

\* C17: the set returned is exactly the listed worktrees whose .env can be read
\* and contains a line that equals WORKTREE_PR_PUBLISHED=true once the white
\* space around it is stripped; no .env, or another value, keeps a worktree out.
C17_ExactlyLineStripped ==
    FlagsCollected =>
        \A d \in Names :
            /\ d \in started.flagged <=>
                   /\ d \in dirs /\ ~Hidden(d)
                   /\ envFiles[d].exists /\ envFiles[d].readable
                   /\ \E i \in 1..Len(envFiles[d].lines) :
                          Strip(envFiles[d].lines[i]) = FlagLine
            /\ ~envFiles[d].exists => d \notin started.flagged
            /\ envFiles[d].lines = << << "WORKTREE_PR_PUBLISHED=false" >> >> =>
                   d \notin started.flagged

\* One worktree flagged by a padded line, the other with the key set to false
C17_Witness ==
    /\ FlagsCollected
    /\ \E d \in started.flagged :
         /\ Len(envFiles[d].lines) = 2
         /\ envFiles[d].lines[2] = << " ", "WORKTREE_PR_PUBLISHED=true", " " >>
    /\ \E d \in dirs \ started.flagged :
         envFiles[d].lines = << << "WORKTREE_PR_PUBLISHED=false" >> >>

\* C27: after a worktree w is deleted and the session kill did not raise, no
\* session that create_or_switch_to_session created for w exists: the session
\* named SessionName(w), which no other worktree of the repository shares, is
\* gone.
C27_SessionGoneWithWorktree ==
    (/\ res.op = "remove" /\ res.status = "ok"
     /\ res.name \in invoked
     /\ res.kill \in { "absent", "killed" }
     /\ \A m \in started.dirs \ { res.name } :
            SessionName(m) # SessionName(res.name)) =>
        SessionName(res.name) \notin sessions

-----------------------------------------------------------------------------
(* Claims about the session orchestrator *)

\* The step is the second of two successive calls for one path, no session of
\* its name having existed before the first
SecondCall ==
    /\ sres.op = "session" /\ ~sres.hadSession
    /\ sres'.op = "session" /\ sres'.name = sres.name

C14_OneSessionPerWorktree ==
    [][(/\ sres.op = "session"
        /\ sres.created
        /\ sres'.op = "session"
        /\ sres'.name # sres.name)
       => ~(/\ sres'.hadSession
            /\ sres'.status = "ok"
            /\ SessionName(sres'.name) = SessionName(sres.name))]_vars

\* C15: after create_or_switch_to_session created a new session for worktree w
\* and returned success, <repoRoot>/.grove/metadata/<w>/pr.md exists, so that
\* get_worktree_metadata(w) reads the template.
C15_MetadataWhereItIsRead ==
    (sres.op = "session" /\ sres.created /\ sres.status = "ok") =>
        /\ sres.name \in prFiles
        /\ get_worktree_metadata(sres.name) # <<>>

\* Where a step stands in what the last call did
Positions(step) == { i \in 1..Len(sres.steps) : sres.steps[i] = step }

Launches == { "editor", "hydration" }

\* C21 as stated: for every session a call creates, the editor on pr.md and the
\* hydration script, when one is found, are launched exactly once.
C21_LaunchedExactlyOnce ==
    (sres.op = "session" /\ sres.created) =>
        /\ Cardinality(Positions("editor")) = 1
        /\ sres.script # "none" => Cardinality(Positions("hydration")) = 1

\* C21: the editor on pr.md and the hydration script are launched at most once
\* for a session, only by the call that creates it, after the session exists
\* and before the attach/switch step; a call that finds the session existing
\* launches neither.
C21_LaunchedOnlyAtCreation ==
    sres.op = "session" =>
        /\ \A l \in Launches :
             /\ Cardinality(Positions(l)) <= 1
             /\ Positions(l) # {} => (sres.created /\ ~sres.hadSession)
             /\ \A i \in Positions(l) :
                  /\ \E j \in Positions("new_session") : j < i
                  /\ \A j \in Positions("attach") \cup Positions("switch") : i < j
        /\ (sres.editor <=> Positions("editor") # {})
        /\ (sres.hydration # "none" <=> Positions("hydration") # {})
        /\ sres.hadSession => (~sres.editor /\ sres.hydration = "none")
        /\ ~sres.created => (~sres.editor /\ sres.hydration = "none")

\* A session created, the editor opened, the script of the worktree run, and
\* then the client switched to it
C21_Witness ==
    /\ sres.op = "session"
    /\ sres.status = "ok"
    /\ sres.steps = << "new_session", "pr.md", "editor", "hydration", "switch" >>
    /\ sres.hydration = "worktree"
    /\ SessionName(sres.name) \in sessions

-----------------------------------------------------------------------------
(* Claims about the sync status computer *)

\* The counts were computed against a comparison branch that resolved
CountsComputed ==
    /\ (~syncIn.trackingExc /\ syncIn.upstream # NoRef) \/ syncIn.originMain
    /\ ~syncIn.rangeExc

\* C7: the classification is total and exclusive: up-to-date for (0,0), ahead for
\* (>0,0), behind for (0,>0), diverged for (>0,>0) when the counts were computed
\* against a resolved comparison branch, and no-upstream otherwise.
C7_ClassificationTotalExclusive ==
    syncOut.done =>
        /\ syncOut.sync_status \in
               {"up-to-date", "ahead", "behind", "diverged", "no-upstream"}
        /\ (syncOut.sync_status = "no-upstream") <=> ~CountsComputed
        /\ CountsComputed =>
             /\ (syncOut.sync_status = "up-to-date")
                    <=> (syncIn.ahead = 0 /\ syncIn.behind = 0)
             /\ (syncOut.sync_status = "ahead")
                    <=> (syncIn.ahead > 0 /\ syncIn.behind = 0)
             /\ (syncOut.sync_status = "behind")
                    <=> (syncIn.ahead = 0 /\ syncIn.behind > 0)
             /\ (syncOut.sync_status = "diverged")
                    <=> (syncIn.ahead > 0 /\ syncIn.behind > 0)
             /\ syncOut.ahead_count = syncIn.ahead
             /\ syncOut.behind_count = syncIn.behind

\* Behind the origin/main fallback, with nothing local
C7_Witness ==
    /\ syncOut.done
    /\ syncIn.upstream = NoRef /\ syncIn.originMain
    /\ syncIn.ahead = 0 /\ syncIn.behind > 0
    /\ syncOut.sync_status = "behind"

-----------------------------------------------------------------------------
(* Claims about the worktree listing *)

\* The names a listing of the given root must hold
Listable(items) ==
    { i.name : i \in { j \in items : j.is_dir /\ j.name[1] # "." } }

\* C18: get_worktree_directories returns exactly the names of the non-hidden
\* subdirectories of the active repository root, no plain file and no name
\* starting with '.', each once and in ascending order, whatever the working
\* directory; with no active repository it returns the empty list.
C18_ListsNonHiddenDirsSorted ==
    listOut.done =>
        /\ ~listIn.locator => listOut.names = <<>>
        /\ listIn.locator =>
             /\ Range(listOut.names) = Listable(listIn.items)
             /\ Len(listOut.names) = Cardinality(Listable(listIn.items))
             /\ \A i, j \in 1..Len(listOut.names) :
                    i < j => StrLess(listOut.names[i], listOut.names[j])

\* A root with the bare repository, a hidden file, a plain file and three
\* worktrees, listed from inside a worktree
C18_Witness ==
    /\ listOut.done
    /\ listIn.locator
    /\ listIn.cwd = "worktree"
    /\ listIn.items = RootEntries
    /\ listOut.names = << << "a", "-", "b" >>, << "a", ".", "b" >>, << "b" >> >>

-----------------------------------------------------------------------------
(* Claims about the commit log *)

\* C11: whenever get_worktree_git_log reports sync_status no-upstream, the
\* result is the empty result: both counts are 0 and the commit list is empty.
C11_NoUpstreamIsEmpty ==
    (logOut.done /\ ~logOut.raised /\ logOut.sync_status = "no-upstream") =>
        /\ logOut.ahead_count = 0
        /\ logOut.behind_count = 0
        /\ logOut.commits = <<>>

\* C12: no exception leaves create_worktree_with_branch,
\* remove_worktree_with_branch or get_worktree_git_log: whatever the locator,
\* git and the hooks answer, the call returns a value and never raises.
C12_NothingRaised ==
    /\ (res.op \in {"create", "remove"} => res.status # "raised")
    /\ (logOut.done => ~logOut.raised)

\* The comparison branch the call used: the tracked upstream, or origin/main
ComparisonUsed(in) == get_sync_status(in.sync).comparison_branch

\* The listed commits that belong to the ancestry of the comparison branch:
\* the branch's newest commits are numbered from 1, and the first
\* <comparison>..<current> of them are the ones the comparison branch lacks
Ancestry(in) ==
    IF ComparisonUsed(in) = NoRef THEN {}
    ELSE { i \in 1..in.nCommits : i > in.sync.ahead }

LogReturned == logOut.done /\ ~logOut.raised /\ ~EndsEarly(logIn)

-----------------------------------------------------------------------------
(* Claims about the pane preview cache *)

\* C6: for a non-empty worktree name, a call that finds a cache entry less than
\* 30 s old returns that entry's data without asking the tmux server or
\* changing the cache; a call that finds an entry 30 s old or older asks the tmux
\* server again and replaces the entry.
C6_CacheWithinTTL ==
    (pres.op = "preview" /\ pres.name # <<>> /\ pres.before.present) =>
        LET age == pres.started - pres.before.timestamp
        IN  /\ age < 30 =>
                /\ ~pres.queried
                /\ pres.value = pres.before.data
                /\ cache[pres.name] = pres.before
            /\ age >= 30 =>
                /\ pres.queried
                /\ cache[pres.name].present
                /\ cache[pres.name].timestamp >= pres.started
                /\ cache[pres.name].data = pres.value

\* A call 29 s after the entry was stored: served from the cache
C6_Witness ==
    /\ pres.op = "preview" /\ pres.name # <<>> /\ pres.before.present
    /\ pres.started - pres.before.timestamp = 29
    /\ ~pres.queried
    /\ pres.value.kind = "windows"

\* C28: bounded staleness. Under a clock that never goes back, the value a
\* call returns for a worktree is the cache's value for it, stored less than
\* 30 s before the call started (or during the call); an entry whose timestamp
\* is 30 s old or older is not returned but replaced by a new query.
C28_BoundedStaleness ==
    (pres.op = "preview" /\ pres.name # <<>>) =>
        /\ cache[pres.name].present
        /\ cache[pres.name].data = pres.value
        /\ pres.started - cache[pres.name].timestamp < TMUX_PANE_CACHE_TTL
        /\ (pres.before.present
            /\ pres.started - pres.before.timestamp >= TMUX_PANE_CACHE_TTL) =>
               (pres.queried /\ cache[pres.name].timestamp >= pres.started)
        /\ ~pres.queried =>
               (pres.before.present /\ pres.value = pres.before.data
                /\ pres.before.timestamp <= pres.started)

\* A call exactly 30 s after the entry was stored: the server is asked again
\* and shows something else
C28_Witness ==
    /\ pres.op = "preview" /\ pres.name # <<>> /\ pres.before.present
    /\ pres.started - pres.before.timestamp = TMUX_PANE_CACHE_TTL
    /\ pres.queried
    /\ pres.value # pres.before.data

-----------------------------------------------------------------------------
(* Claims about the hook scripts *)

\* C23: create_worktree_with_branch and remove_worktree_with_branch eventually
\* return even if the hook script never exits: a running script is abandoned
\* when its timeout fires, after 30 s for setup and 60 s for teardown, and the
\* operation that was called runs to its return.
C23_HookNeverBlocksReturn ==
    /\ [](hookRun.pc = "hook" => hookRun.elapsed <= hook_timeout(hookRun.op))
    /\ [](hookRun.run.exc = "timeout" =>
            /\ hookRun.elapsed = hook_timeout(hookRun.op)
            /\ hookRun.pc \in { "rest", "returned" })
    /\ (hookRun.pc # "idle") ~> (hookRun.pc = "returned")

\* A removal that returned after its teardown hook was abandoned at 60 s
C23_Witness ==
    /\ hookRun.op = "remove"
    /\ hookRun.pc = "returned"
    /\ hookRun.run.exc = "timeout"
    /\ hookRun.elapsed = TEARDOWN_TIMEOUT
    /\ hookRun.status = "ok"
    /\ hookRun.msg = << "Worktree removed. ", "Docker cleanup timed out after 60 seconds" >>

-----------------------------------------------------------------------------
(* Claims about the pull request submission *)

Errors(shown) == { i \in 1..Len(shown) : shown[i].severity = "error" }

\* C24: handle_pr_submission writes the review-submitted flag to the
\* worktree's .env only after the push and the PR-creation command both exited
\* with code 0, and the .env then holds the flag line; when the push fails an
\* error is notified, PR creation is not attempted and no .env changes.
C24_FlagOnlyAfterPushAndPR ==
    [][submission'.op = "submit" =>
        LET s == submission'
        IN  /\ (envFiles' # envFiles \/ s.flagWritten) =>
                   (s.pushTried /\ s.push = "0" /\ s.prTried /\ s.pr = "0")
            /\ s.flagWritten =>
                   /\ FlagLine \in Range(envFiles'[s.worktree].lines)
                   /\ \A m \in Names \ { s.worktree } : envFiles'[m] = envFiles[m]
            /\ (s.pushTried /\ s.push # "0") =>
                   /\ Errors(s.notes) # {}
                   /\ ~s.prTried
                   /\ ~s.flagWritten
                   /\ envFiles' = envFiles]_vars

\* A submission that turned WORKTREE_PR_PUBLISHED=false into the flag
C24_Witness ==
    /\ submission.op = "submit"
    /\ submission.flagWritten
    /\ submission.exited
    /\ submission.before.lines = << << "WORKTREE_PR_PUBLISHED=false" >> >>
    /\ envFiles[submission.worktree].lines = << FlagLine >>
    /\ submission.worktree \in get_worktree_pr_status

-----------------------------------------------------------------------------
(* Claims about the configuration and the restart *)

\* C25: after the user picks, in the switch-repository screen, a repository
\* other than the current one, the application restarts and the next GroveApp
\* runs with the picked repository as the active one.
C25_RestartRunsPicked ==
    (app.phase = "running" /\ app.picked # NoPath) => active = Resolve(app.picked)

\* C26 as stated: after any calls of add_repository the repositories list holds
\* at most one entry per resolved path.
C26_OneEntryPerResolvedPath ==
    \A i, j \in 1..Len(config.repositories) :
        i # j => Resolve(config.repositories[i].path)
                 # Resolve(config.repositories[j].path)

\* C26: add_repository is idempotent on the path as it is stored. A call whose
\* resolved path is already stored adds no entry, any other successful call
\* appends one entry holding the resolved path, and no two entries hold the
\* same stored path; two entries stand for one resolved path only when one of
\* them was stored unresolved, which add_repository never does.
C26_OneEntryPerStoredPath ==
    LET repos == config.repositories
    IN  /\ \A i, j \in 1..Len(repos) :
             i # j =>
               /\ repos[i].path # repos[j].path
               /\ Resolve(repos[i].path) = Resolve(repos[j].path) =>
                      (repos[i].path # Resolve(repos[i].path)
                       \/ repos[j].path # Resolve(repos[j].path))
        /\ (cfgRes.op = "add" /\ cfgRes.status = "ok") =>
             IF cfgRes.stored
             THEN Len(repos) = cfgRes.before
             ELSE /\ Len(repos) = cfgRes.before + 1
                  /\ repos[Len(repos)].path = Resolve(cfgRes.path)

\* A repository added a second time, written from the home directory, to a
\* list of two: the list is as long as before
C26_Witness ==
    /\ cfgRes.op = "add" /\ cfgRes.status = "ok"
    /\ cfgRes.path = "~/r1"
    /\ cfgRes.stored
    /\ Len(config.repositories) = 2
    /\ cfgRes.before = 2
    /\ C26_OneEntryPerResolvedPath

====
